---- MODULE Spec2Model ----
(***************************************************************************)
(* Model of the multi-symbol auto-trader of src/src/main.rs.               *)
(*                                                                         *)
(*   Spec      the main event loop of auto_multi_trade (one session task): *)
(*             control commands, upstream frames, decision pass,           *)
(*             settlement, money management, stop condition.               *)
(*   LadderSpec the same loop driven only by buy responses, settlements    *)
(*             and money-mode changes, deep enough to walk the whole       *)
(*             Martingale ladder.                                          *)
(*   PassSpec  the decision pass over every combination of status codes.   *)
(*   StopSpec  the loop with subscription ids, up to STOP or the stop      *)
(*             condition.                                                  *)
(*   GenSpec   one AnalysisGenerator of the indicator library              *)
(*             (src/RustLib/indicator_math/src/generator.rs) under         *)
(*             append_candle and append_tick.                              *)
(*   SockSpec  the START_AUTO_MULTI / STOP_AUTO_TRADE handlers of          *)
(*             handle_socket, one step per suspension point, against the   *)
(*             shared AppState.auto_trade handle.                          *)
(*   SeriesSpec, RampSpec  one generator under append_candle only, over    *)
(*             short series of every shape and over one long rising series.*)
(*   LotSpec   the two kinds of session and the lot files of the day.      *)
(*   SinkSpec  the tasks that lock AppState.firestore, with fairness.      *)
(*   MinuteSpec the loop under the candle streams of two symbols.          *)
(*   RuleSpec  the decision pass under a rulebook with empty list items.   *)
(*                                                                         *)
(* Money amounts are f64 in the source; the model uses integers (all the   *)
(* amounts it draws are integral, where f64 arithmetic is exact).          *)
(***************************************************************************)
EXTENDS Integers, Sequences, FiniteSets, TLC

\* ------------------------------------------------------------------ bounds
MaxSettle == 3        \* settlements processed in one behaviour of Spec
MaxTrades == 3        \* buy responses processed in one behaviour of Spec
MaxMinute == 2        \* minutes the OHLC frames of Spec range over
MaxLadderSettle == 10 \* settlements processed in one behaviour of LadderSpec
MaxTasks == 3         \* session tasks spawned in one behaviour of SockSpec
MaxGenCalls == 2      \* executions of append_candle in one behaviour of GenSpec
MaxSeriesCalls == 4   \* candles appended in one behaviour of SeriesSpec
MaxRamp == 100        \* candles appended in the behaviour of RampSpec
MaxLotNo == 3         \* lot numbers handed out in one behaviour of LotSpec
MaxSinkSettle == 2    \* settlements the session handles in one behaviour of SinkSpec
MaxStreamMinute == 3  \* minutes the candle streams of MinuteSpec range over

\* ------------------------------------------------------- program constants
StartBalance == 1000
DefaultInitialStake == 1
DefaultTargetProfit == 10
DefaultTargetWin == 5
MailboxCapacity == 10

\* ------------------------------------------------------------- input sets
Symbols == {"R_10", "R_25"}
NoSymbol == ""
NoSub == "-"
Modes == {"fix", "martingale", "other"}
NoMode == "-"
Keep == -1000
NoMinute == -1
NoCandle == 0
HistoryLast == 60    \* epoch of the last candle of the replayed history
NoAnalysis == "none"
Profits == {-1000, 0, 1}

\* tradeSignal.json as loaded into signal_entries; CallSigNal / PUTSignal are
\* strings, held here as their sequences of characters.
\*   R_10  "7, 15" / "42"       selected, active
\*   R_25  "7"     / " 42 ,7"   selected, active (7 is on both lists)
\*   R_50  "7"     / "42"       selected, inactive
\*   R_75  "7"     / "42"       active, not selected
signal_entries ==
  << [asset_code |-> "R_10", call_signal |-> <<"7", ",", " ", "1", "5">>,
      put_signal |-> <<"4", "2">>, is_active |-> "y"],
     [asset_code |-> "R_25", call_signal |-> <<"7">>,
      put_signal |-> <<" ", "4", "2", " ", ",", "7">>, is_active |-> "y"],
     [asset_code |-> "R_50", call_signal |-> <<"7">>,
      put_signal |-> <<"4", "2">>, is_active |-> "n"],
     [asset_code |-> "R_75", call_signal |-> <<"7">>,
      put_signal |-> <<"4", "2">>, is_active |-> "y"] >>

\* another tradeSignal.json, with lists as they come out of a careless edit:
\*   R_10  ""    / "42"         selected, active (empty call list)
\*   R_25  "7,"  / "42"         selected, active (call list ends with a comma)
rule_entries ==
  << [asset_code |-> "R_10", call_signal |-> << >>,
      put_signal |-> <<"4", "2">>, is_active |-> "y"],
     [asset_code |-> "R_25", call_signal |-> <<"7", ",">>,
      put_signal |-> <<"4", "2">>, is_active |-> "y"] >>

\* config.assets: the symbols selected with the START_AUTO_MULTI command
asset_symbols == Symbols \cup {"R_50"}

VARIABLES
  running,               \* the session task is inside its main loop
  lot_active,
  current_money_mode,
  current_initial_stake,
  target_profit,
  target_win,
  balance,
  grand_profit,
  win_count,
  trade_count,
  stake_index_per_asset, \* HashMap<String, usize>, a function on the keys present
  pending_contracts,     \* HashMap<String, String>, contract_id -> asset
  trades_for_lot,        \* number of TradeObjects pushed to the lot log
  last_check_minute,
  initial_check_done,
  current_candle,        \* symbol -> open_time of the forming candle
  generators,            \* symbol -> status_code of state.last_analysis
  sub_ids,
  sent,                  \* frames written to the upstream by the last handler
  last_candle,           \* symbol -> time of its generator's state.last_candle
  handled,               \* what the last handler was: its kind; for a
                         \* settlement the frame's profit and the contract's
                         \* asset; for an OHLC frame its symbol, its epoch and
                         \* the time of the candle it passed to append_candle
  broadcast,             \* messages the last handler sent on the broadcast channel
  auto_trade,            \* AppState.auto_trade: the stored task, or 0
  tasks,                 \* task id -> "none" | "running" | "ended" | "aborted"
  mailbox,               \* task id -> commands queued on its cmd channel
  sock,                  \* socket -> position of its recv_task handler
  gen,                   \* an AnalysisGenerator of the indicator library
  gen_call,              \* the last call made on gen, with what it returned
  append_candle_calls,   \* executions of append_candle on gen so far
  ramp,                  \* a generator fed rising closes: its medium MA and counters
  sink_pc,               \* task -> its position around the document sink
  firestore_lock,        \* AppState.firestore: the task holding the mutex, or "free"
  sink_cmds,             \* commands queued on the session's cmd channel
  sink_settled,          \* settlements the session has finished handling
  lot_files,             \* the numbers N of the lot_<N>.json files of the day
  lot_sessions           \* session -> its position, lot number and trade mode

sessionVars ==
  << running, lot_active, current_money_mode, current_initial_stake, target_profit,
     target_win, balance, grand_profit, win_count, trade_count, stake_index_per_asset,
     pending_contracts, trades_for_lot, last_check_minute, initial_check_done,
     current_candle, generators, last_candle, sub_ids, sent, handled, broadcast >>

sockVars == << auto_trade, tasks, mailbox, sock >>

genVars == << gen, gen_call, append_candle_calls >>

rampVars == << ramp >>

sinkVars == << sink_pc, firestore_lock, sink_cmds, sink_settled >>

lotVars == << lot_files, lot_sessions >>

sideVars == << rampVars, sinkVars, lotVars >>

vars == << sessionVars, sockVars, genVars, sideVars >>

\* ----------------------------------------------------------------- helpers
Min(a, b) == IF a <= b THEN a ELSE b

Range(s) == {s[i] : i \in 1..Len(s)}

\* HashMap::get(k).copied().unwrap_or(d)
MapGetOr(m, k, d) == IF k \in DOMAIN m THEN m[k] ELSE d

\* HashMap::insert(k, v)
MapInsert(m, k, v) == [x \in (DOMAIN m) \cup {k} |-> IF x = k THEN v ELSE m[x]]

\* HashMap::remove(k)
MapRemove(m, k) == [x \in (DOMAIN m) \ {k} |-> m[x]]

EmptyMap == [x \in {} |-> 0]

martingale_stakes == <<1, 2, 6, 18, 54, 162, 384, 800, 1600>>



\* ------------------------------------------------- decision pass (pure part)
\* str::trim_start / trim_end on a sequence of characters
RECURSIVE TrimStart(_)
TrimStart(cs) == IF cs # <<>> /\ Head(cs) = " " THEN TrimStart(Tail(cs)) ELSE cs

RECURSIVE TrimEnd(_)
TrimEnd(cs) ==
  IF cs # <<>> /\ cs[Len(cs)] = " " THEN TrimEnd(SubSeq(cs, 1, Len(cs) - 1)) ELSE cs

\* str::trim
Trim(cs) == TrimEnd(TrimStart(cs))

RECURSIVE SplitComma(_)
\* str::split(','): the pieces between commas, empty pieces included
SplitComma(cs) ==
  IF \A i \in 1..Len(cs) : cs[i] # "," THEN << cs >>
  ELSE LET k == CHOOSE i \in 1..Len(cs) :
                  cs[i] = "," /\ \A j \in 1..(i - 1) : cs[j] # ","
       IN << SubSeq(cs, 1, k - 1) >> \o SplitComma(SubSeq(cs, k + 1, Len(cs)))

RECURSIVE Str(_)
\* the string a sequence of characters spells
Str(cs) == IF cs = <<>> THEN "" ELSE Head(cs) \o Str(Tail(cs))

\* signal.split(',').map(|s| s.trim()).collect()
SignalCodes(signal) ==
  LET parts == SplitComma(signal)
  IN [i \in 1..Len(parts) |-> Str(Trim(parts[i]))]

\* call_codes / put_codes of every signal string of the rulebook (the loop
\* parses them again at every pass, with the same result)
ParsedSignals ==
  [signal \in {signal_entries[i].call_signal : i \in 1..Len(signal_entries)}
             \cup {signal_entries[i].put_signal : i \in 1..Len(signal_entries)}
             \cup {rule_entries[i].call_signal : i \in 1..Len(rule_entries)}
             \cup {rule_entries[i].put_signal : i \in 1..Len(rule_entries)}
     |-> SignalCodes(signal)]

\* a mutant of Classify: the put list is consulted first
Classify_PutFirst(entry, code) ==
  IF code \in Range(ParsedSignals[entry.put_signal]) THEN "PUT"
  ELSE IF code \in Range(ParsedSignals[entry.call_signal]) THEN "CALL"
  ELSE "IDLE"

\* call_codes.contains(code) / put_codes.contains(code)
Classify(entry, code) ==
  IF code \in Range(ParsedSignals[entry.call_signal]) THEN "CALL"
  ELSE IF code \in Range(ParsedSignals[entry.put_signal]) THEN "PUT"
  ELSE "IDLE"


\* a mutant of ComputeStake: the ladder is ignored
ComputeStake_NoLadder(mode, idx, asset, initial_stake) == initial_stake

\* the stake of a candidate trade on asset
ComputeStake(mode, idx, asset, initial_stake) ==
  IF mode = "martingale"
  THEN martingale_stakes[Min(MapGetOr(idx, asset, 0), Len(martingale_stakes) - 1) + 1]
  ELSE initial_stake


\* a mutant of CanAfford: a stake equal to the balance is refused
CanAfford_Strict(bal, stake) == bal > stake

\* balance >= stake
CanAfford(bal, stake) == bal >= stake

\* the buy frames one entry of signal_entries contributes to a decision pass
EntryBuys(entry, gens, mode, idx, initial_stake, bal) ==
  IF entry.is_active # "y" \/ entry.asset_code \notin asset_symbols THEN <<>>
  ELSE IF entry.asset_code \notin DOMAIN gens THEN <<>>
  ELSE IF gens[entry.asset_code] = NoAnalysis THEN <<>>
  ELSE LET decision == Classify(entry, gens[entry.asset_code])
           stake == ComputeStake(mode, idx, entry.asset_code, initial_stake)
       IN IF decision \in {"CALL", "PUT"} /\ CanAfford(bal, stake)
          THEN << [type |-> "buy", symbol |-> entry.asset_code, stake |-> stake,
                   contract_type |-> decision] >>
          ELSE <<>>

RECURSIVE PassBuys(_, _, _, _, _, _)
\* the buys of a whole decision pass, in the order of signal_entries
PassBuys(i, gens, mode, idx, initial_stake, bal) ==
  IF i > Len(signal_entries) THEN <<>>
  ELSE EntryBuys(signal_entries[i], gens, mode, idx, initial_stake, bal)
       \o PassBuys(i + 1, gens, mode, idx, initial_stake, bal)

\* the decision the multi_analysis message reports for an entry
SignalDecision(entry, code) ==
  IF code \in Range(ParsedSignals[entry.call_signal]) THEN "call"
  ELSE IF code \in Range(ParsedSignals[entry.put_signal]) THEN "put"
  ELSE "idle"

\* the AssetSignalResult one entry contributes to multi_analysis
EntrySignal(entry, gens) ==
  IF entry.is_active # "y" \/ entry.asset_code \notin asset_symbols THEN <<>>
  ELSE IF entry.asset_code \notin DOMAIN gens THEN <<>>
  ELSE IF gens[entry.asset_code] = NoAnalysis THEN <<>>
  ELSE << [asset |-> entry.asset_code, status_code |-> gens[entry.asset_code],
           decision |-> SignalDecision(entry, gens[entry.asset_code])] >>

RECURSIVE PassSignals(_, _)
\* signal_results of a pass, in the order of signal_entries
PassSignals(i, gens) ==
  IF i > Len(signal_entries) THEN <<>>
  ELSE EntrySignal(signal_entries[i], gens) \o PassSignals(i + 1, gens)

\* what a decision pass broadcasts: auto_trade_status with the trade entries
\* when any buy was sent, then multi_analysis when any symbol has an analysis
PassBroadcast(buys, gens, epoch) ==
  (IF buys # <<>> THEN << [type |-> "auto_trade_status", active |-> TRUE] >> ELSE <<>>)
  \o (IF PassSignals(1, gens) # <<>>
      THEN << [type |-> "multi_analysis", timestamp |-> epoch,
               assets |-> PassSignals(1, gens)] >>
      ELSE <<>>)

\* a mutant of ShouldCheck: the second of the minute is not looked at
ShouldCheck_AnySecond(done, epoch, last_minute) ==
  IF ~done THEN TRUE
  ELSE (epoch \div 60) # last_minute

\* should_check, computed before initial_check_done is set
ShouldCheck(done, epoch, last_minute) ==
  IF ~done THEN TRUE
  ELSE (epoch % 60) <= 5 /\ (epoch \div 60) # last_minute


\* a mutant of PassRuns: lot_active is not consulted
PassRuns_IgnoresPause(done, epoch, last_minute, active) ==
  IF ~done THEN (epoch \div 60) # last_minute
  ELSE (epoch % 60) <= 5 /\ (epoch \div 60) # last_minute

\* the guard of the decision pass
PassRuns(done, epoch, last_minute, active) ==
  ShouldCheck(done, epoch, last_minute) /\ (epoch \div 60) # last_minute /\ active


\* a mutant of IsWin: a profit of 0 counts as a win
IsWin_ZeroWins(profit) == profit >= 0

\* ------------------------------------------------------ settlement (pure part)
IsWin(profit) == profit > 0


\* a mutant of LadderAfter: a loss advances the ladder in every money mode
LadderAfter_AnyMode(idx, asset, profit, mode) ==
  IF profit > 0 THEN MapInsert(idx, asset, 0)
  ELSE MapInsert(idx, asset, Min(MapGetOr(idx, asset, 0) + 1, 8))

\* a mutant of LadderAfter: the index is not saturated at the last position
LadderAfter_NoClamp(idx, asset, profit, mode) ==
  IF profit > 0 THEN MapInsert(idx, asset, 0)
  ELSE IF mode = "martingale" THEN MapInsert(idx, asset, MapGetOr(idx, asset, 0) + 1)
  ELSE idx

\* the per-asset ladder after a settlement of a contract recorded for asset
LadderAfter(idx, asset, profit, mode) ==
  IF IsWin(profit) THEN MapInsert(idx, asset, 0)
  ELSE IF mode = "martingale"
       THEN MapInsert(idx, asset,
                      Min(MapGetOr(idx, asset, 0) + 1, Len(martingale_stakes) - 1))
       ELSE idx


\* a mutant of StopTrading: the profit target must be exceeded
StopTrading_StrictProfit(mode, gp, tp, wc, tw) ==
  IF mode = "fix" THEN gp > tp
  ELSE IF mode = "martingale" THEN wc >= tw
  ELSE FALSE

\* a mutant of StopTrading: the win target must be exceeded
StopTrading_StrictWin(mode, gp, tp, wc, tw) ==
  IF mode = "fix" THEN gp >= tp
  ELSE IF mode = "martingale" THEN wc > tw
  ELSE FALSE

\* a mutant of StopTrading: both targets are tested in every mode
StopTrading_AnyTarget(mode, gp, tp, wc, tw) == gp >= tp \/ wc >= tw

\* stop_trading
StopTrading(mode, gp, tp, wc, tw) ==
  IF mode = "fix" THEN gp >= tp
  ELSE IF mode = "martingale" THEN wc >= tw
  ELSE FALSE

\* a mutant of Forgets: only the first recorded subscription is forgotten
Forgets_FirstOnly(ids) ==
  [i \in 1..(IF ids = <<>> THEN 0 ELSE 1) |-> [type |-> "forget", id |-> ids[i]]]

\* the forget frames sent for every recorded subscription id
Forgets(ids) == [i \in 1..Len(ids) |-> [type |-> "forget", id |-> ids[i]]]

\* "Track subscription IDs": push when not yet contained
TrackSub(ids, sub) ==
  IF sub = NoSub \/ sub \in Range(ids) THEN ids ELSE Append(ids, sub)

\* ------------------------------------------- the analysis generator (pure part)
\* One AnalysisGenerator of src/RustLib/indicator_math/src/generator.rs under
\* append_candle and append_tick.  f64 values are held as exact fractions
\* [n, d]; Option<T> is held as <<>> (None) or <<x>> (Some(x)).  Values that
\* need a square root or a logarithm are held as the exact arguments of that
\* function.  The moving averages are of type "EMA" (the default options).

None == <<>>
Some(x) == << x >>
IsSome(o) == o # <<>>
Unwrap(o) == o[1]

Abs(x) == IF x < 0 THEN -x ELSE x
Max(a, b) == IF a >= b THEN a ELSE b

RECURSIVE GCD(_, _)
GCD(a, b) == IF b = 0 THEN a ELSE GCD(b, a % b)

\* the fraction n / d (d # 0) in lowest terms with a positive denominator
Rat(n, d) ==
  LET sn == IF d < 0 THEN -n ELSE n
      sd == Abs(d)
      g == GCD(Abs(sn), sd)
  IN [n |-> sn \div g, d |-> sd \div g]

RInt(x) == [n |-> x, d |-> 1]
RAdd(x, y) == Rat(x.n * y.d + y.n * x.d, x.d * y.d)
RSub(x, y) == Rat(x.n * y.d - y.n * x.d, x.d * y.d)
RMul(x, y) == Rat(x.n * y.n, x.d * y.d)
RDiv(x, y) == Rat(x.n * y.d, x.d * y.n)
RLess(x, y) == x.n * y.d < y.n * x.d
RLeq(x, y) == x.n * y.d <= y.n * x.d
RAbs(x) == [n |-> Abs(x.n), d |-> x.d]
RMax(x, y) == IF RLess(x, y) THEN y ELSE x

RECURSIVE RSum(_)
RSum(xs) == IF xs = <<>> THEN RInt(0) ELSE RAdd(Head(xs), RSum(Tail(xs)))

\* VecDeque::push_back followed by pop_front when longer than cap
PushCapped(w, x, cap) ==
  LET pushed == Append(w, x)
  IN IF Len(pushed) > cap THEN Tail(pushed) ELSE pushed

\* AnalysisOptions::default() with the periods replaced
GenOptions(e1, e2, e3, atr, rsi, adx, bb, ci) ==
  [ema1_period |-> e1, ema2_period |-> e2, ema3_period |-> e3,
   atr_period |-> atr, rsi_period |-> rsi, adx_period |-> adx,
   bb_period |-> bb, ci_period |-> ci, flat_threshold |-> Rat(1, 5)]

\* options with one period for the moving averages, ATR, RSI and ADX
GenOptionsOf(ma, bb, ci) == GenOptions(ma, ma, ma, ma, ma, ma, bb, ci)

\* AnalysisGenerator::new with GeneratorState::new
NewGenerator(options) ==
  [options |-> options,
   last_ema_1 |-> RInt(0), last_ema_2 |-> RInt(0), last_ema_3 |-> RInt(0),
   last_atr |-> RInt(0), rsi_avg_gain |-> RInt(0), rsi_avg_loss |-> RInt(0),
   up_con_medium_ema |-> 0, down_con_medium_ema |-> 0,
   up_con_long_ema |-> 0, down_con_long_ema |-> 0,
   last_ema_cut_index |-> None,
   prev_analysis |-> None, last_analysis |-> None, last_candle |-> None,
   tr_sum |-> RInt(0), pdm_sum |-> RInt(0), mdm_sum |-> RInt(0),
   adx_val |-> RInt(0), dx_count |-> 0,
   bb_window |-> <<>>, ci_window |-> <<>>, ci_atr_window |-> <<>>,
   ema_1_k |-> Rat(2, options.ema1_period + 1),
   ema_2_k |-> Rat(2, options.ema2_period + 1),
   ema_3_k |-> Rat(2, options.ema3_period + 1),
   analysis_array |-> <<>>, candle_data |-> <<>>, current_candle |-> None]

\* calculate_ma for ma_type "EMA"
calculate_ma(current_price, last_ema_state, ema_k) ==
  RAdd(RMul(current_price, ema_k), RMul(last_ema_state, RSub(RInt(1), ema_k)))

\* a mutant of NewEma: the first candle is smoothed like every other
NewEma_NoInit(i, close, last_ema_state, ema_k) ==
  calculate_ma(RInt(close), last_ema_state, ema_k)

\* new_ema_1 / new_ema_2 / new_ema_3
NewEma(i, close, last_ema_state, ema_k) ==
  IF i = 0 THEN RInt(close) ELSE calculate_ma(RInt(close), last_ema_state, ema_k)

get_ema_direction(prev, curr, flat_threshold) ==
  IF RLeq(RAbs(RSub(prev, curr)), flat_threshold) THEN "Flat"
  ELSE IF RLess(prev, curr) THEN "Up"
  ELSE "Down"

EmaDir(i, prev, curr, flat_threshold) ==
  IF i > 0 THEN get_ema_direction(prev, curr, flat_threshold) ELSE "Flat"

\* curr_dir_calc / prev_dir_calc
DirCalc(diff) ==
  IF RLess(Rat(1, 10000), diff) THEN "Up"
  ELSE IF RLess(diff, Rat(-1, 10000)) THEN "Down"
  ELSE "Flat"

\* ema_short_turn_type
TurnType(g, new_ema_1) ==
  IF IsSome(g.prev_analysis)
       /\ IsSome(Unwrap(g.prev_analysis).ema_short_value)
       /\ IsSome(g.last_analysis)
       /\ IsSome(Unwrap(g.last_analysis).ema_short_value)
  THEN LET prev_prev_val == Unwrap(Unwrap(g.prev_analysis).ema_short_value)
           curr == DirCalc(RSub(new_ema_1, g.last_ema_1))
           prev == DirCalc(RSub(g.last_ema_1, prev_prev_val))
       IN IF curr = "Up" /\ prev = "Down" THEN "TurnUp"
          ELSE IF curr = "Down" /\ prev = "Up" THEN "TurnDown"
          ELSE "-"
  ELSE "-"

\* tr
TrueRange(prev_candle, c) ==
  IF IsSome(prev_candle)
  THEN Max(c.high - c.low,
           Max(Abs(c.high - Unwrap(prev_candle).close),
               Abs(c.low - Unwrap(prev_candle).close)))
  ELSE c.high - c.low

\* new_atr
NewAtr(i, atr_period, last_atr, tr) ==
  IF i < atr_period
  THEN IF i = 0 THEN RInt(tr)
       ELSE RDiv(RAdd(RMul(last_atr, RInt(i)), RInt(tr)), RInt(i + 1))
  ELSE RDiv(RAdd(RMul(last_atr, RInt(atr_period - 1)), RInt(tr)), RInt(atr_period))

\* 100 - 100 / (1 + rs), rs = 100 when the average loss is 0
RsiOf(avg_gain, avg_loss) ==
  LET rs == IF avg_loss.n = 0 THEN RInt(100) ELSE RDiv(avg_gain, avg_loss)
  IN RSub(RInt(100), RDiv(RInt(100), RAdd(RInt(1), rs)))

\* rsi_value with the new averages: [value, avg_gain, avg_loss]
RsiResult(has_value, avg_gain, avg_loss) ==
  [value |-> IF has_value THEN Some(RsiOf(avg_gain, avg_loss)) ELSE None,
   avg_gain |-> avg_gain, avg_loss |-> avg_loss]

\* the sums of the first rsi_period candles, averaged at the last of them
RsiInit(i, period, sum_gain, sum_loss) ==
  IF i + 1 = period
  THEN RsiResult(TRUE, RDiv(sum_gain, RInt(period)), RDiv(sum_loss, RInt(period)))
  ELSE RsiResult(FALSE, sum_gain, sum_loss)

RsiStep(g, i, period, gain, loss) ==
  IF i < period
  THEN RsiInit(i, period,
               IF i = 0 THEN gain ELSE RAdd(g.rsi_avg_gain, gain),
               IF i = 0 THEN loss ELSE RAdd(g.rsi_avg_loss, loss))
  ELSE RsiResult(TRUE,
                 RDiv(RAdd(RMul(g.rsi_avg_gain, RInt(period - 1)), gain), RInt(period)),
                 RDiv(RAdd(RMul(g.rsi_avg_loss, RInt(period - 1)), loss), RInt(period)))

\* 4. RSI: [value, avg_gain, avg_loss]
Rsi(g, i, prev_candle, close) ==
  IF ~IsSome(prev_candle)
  THEN RsiResult(FALSE, g.rsi_avg_gain, g.rsi_avg_loss)
  ELSE RsiStep(g, i, g.options.rsi_period,
               RInt(IF close - Unwrap(prev_candle).close > 0
                    THEN close - Unwrap(prev_candle).close ELSE 0),
               RInt(IF close - Unwrap(prev_candle).close < 0
                    THEN Abs(close - Unwrap(prev_candle).close) ELSE 0))

\* a band avg + k * sqrt(var)
Band(avg, k, var) == [avg |-> avg, k |-> k, var |-> var]

BBBands(avg, var) ==
  [upper |-> Some(Band(avg, 2, var)), middle |-> Some(Band(avg, 0, var)),
   lower |-> Some(Band(avg, -2, var))]

RECURSIVE BBVariance(_, _)
BBVariance(window, avg) ==
  IF window = <<>> THEN RInt(0)
  ELSE RAdd(RMul(RSub(RInt(Head(window)), avg), RSub(RInt(Head(window)), avg)),
            BBVariance(Tail(window), avg))

RECURSIVE IntSum(_)
IntSum(xs) == IF xs = <<>> THEN 0 ELSE Head(xs) + IntSum(Tail(xs))

\* 5. BB on the window that already holds the new close
BBValuesOf(window, bb_period) ==
  IF Len(window) >= bb_period
  THEN BBBands(Rat(IntSum(window), bb_period),
               RDiv(BBVariance(window, Rat(IntSum(window), bb_period)), RInt(bb_period)))
  ELSE [upper |-> None, middle |-> None, lower |-> None]

RECURSIVE SeqMax(_)
SeqMax(xs) == IF Len(xs) = 1 THEN xs[1] ELSE Max(xs[1], SeqMax(Tail(xs)))

RECURSIVE SeqMin(_)
SeqMin(xs) == IF Len(xs) = 1 THEN xs[1] ELSE Min(xs[1], SeqMin(Tail(xs)))

\* Some(0.0) on a zero range (is_zero), else 100 * log10(log10_of) / log10(period)
ChoppyValue(range, sum_atr, ci_period) ==
  IF range > 0
  THEN Some([is_zero |-> FALSE, log10_of |-> RDiv(sum_atr, RInt(range)),
             period |-> ci_period])
  ELSE Some([is_zero |-> TRUE, log10_of |-> RInt(1), period |-> ci_period])

\* 6. CI on the windows that already hold the new candle and the new ATR
ChoppyOf(ci_window, ci_atr_window, ci_period) ==
  IF Len(ci_window) >= ci_period
  THEN ChoppyValue(SeqMax([j \in 1..Len(ci_window) |-> ci_window[j].high])
                     - SeqMin([j \in 1..Len(ci_window) |-> ci_window[j].low]),
                   RSum(ci_atr_window), ci_period)
  ELSE None

\* pdm
PlusDM(up_move, down_move) == IF up_move > down_move /\ up_move > 0 THEN up_move ELSE 0

\* mdm
MinusDM(up_move, down_move) ==
  IF down_move > up_move /\ down_move > 0 THEN down_move ELSE 0

\* tr_sum / pdm_sum / mdm_sum after the candle
AdxSmooth(i, period, sum, x) ==
  IF i < period THEN RAdd(sum, x)
  ELSE RAdd(RSub(sum, RDiv(sum, RInt(period))), x)

\* dx from di_plus and di_minus
AdxDx(di_plus, di_minus) ==
  IF RAdd(di_plus, di_minus).n = 0 THEN RInt(0)
  ELSE RMul(RDiv(RAbs(RSub(di_plus, di_minus)), RAdd(di_plus, di_minus)), RInt(100))

\* adx_val after dx_count was incremented to dx_count
AdxVal(adx_val, period, dx, dx_count) ==
  IF dx_count <= period
  THEN IF dx_count = 1
       THEN RAdd(dx, RDiv(dx, RInt(period)))
       ELSE RAdd(adx_val, RDiv(dx, RInt(period)))
  ELSE RDiv(RAdd(RMul(adx_val, RInt(period - 1)), dx), RInt(period))

AdxResult(has_value, tr_sum, pdm_sum, mdm_sum, adx_val, dx_count) ==
  [value |-> IF has_value THEN Some(adx_val) ELSE None,
   tr_sum |-> tr_sum, pdm_sum |-> pdm_sum, mdm_sum |-> mdm_sum,
   adx_val |-> adx_val, dx_count |-> dx_count]

AdxWithSums(g, i, period, tr_sum, pdm_sum, mdm_sum) ==
  IF i >= period /\ tr_sum.n > 0
  THEN AdxResult(g.dx_count + 1 >= period, tr_sum, pdm_sum, mdm_sum,
                 AdxVal(g.adx_val, period,
                        AdxDx(RMul(RDiv(pdm_sum, tr_sum), RInt(100)),
                              RMul(RDiv(mdm_sum, tr_sum), RInt(100))),
                        g.dx_count + 1),
                 g.dx_count + 1)
  ELSE AdxResult(FALSE, tr_sum, pdm_sum, mdm_sum, g.adx_val, g.dx_count)

\* 7. ADX: [value, tr_sum, pdm_sum, mdm_sum, adx_val, dx_count]
Adx(g, i, prev_candle, c, tr) ==
  IF ~IsSome(prev_candle)
  THEN AdxResult(FALSE, g.tr_sum, g.pdm_sum, g.mdm_sum, g.adx_val, g.dx_count)
  ELSE AdxWithSums(g, i, g.options.adx_period,
         AdxSmooth(i, g.options.adx_period, g.tr_sum, RInt(tr)),
         AdxSmooth(i, g.options.adx_period, g.pdm_sum,
                   RInt(PlusDM(c.high - Unwrap(prev_candle).high,
                               Unwrap(prev_candle).low - c.low))),
         AdxSmooth(i, g.options.adx_period, g.mdm_sum,
                   RInt(MinusDM(c.high - Unwrap(prev_candle).high,
                                Unwrap(prev_candle).low - c.low))))

\* a mutant of ResultIndex: results are numbered from 1
ResultIndex_FromOne(g) == Len(g.analysis_array) + 1

\* let i = self.analysis_array.len()
ResultIndex(g) == Len(g.analysis_array)

\* a mutant of ConCounters: a flat step resets both counters
ConCounters_FlatResets(dir, up_con, down_con) ==
  IF dir = "Up" THEN [up |-> up_con + 1, down |-> 0]
  ELSE IF dir = "Down" THEN [up |-> 0, down |-> down_con + 1]
  ELSE [up |-> 0, down |-> 0]

\* Consecutives: the up / down counters of one moving average after the step
ConCounters(dir, up_con, down_con) ==
  IF dir = "Up" THEN [up |-> up_con + 1, down |-> 0]
  ELSE IF dir = "Down" THEN [up |-> 0, down |-> down_con + 1]
  ELSE [up |-> up_con, down |-> down_con]

\* a mutant of EmaCutLongType: the two trend names are exchanged
EmaCutLongType_Swapped(i, last_ema_2, last_ema_3, new_ema_2, new_ema_3) ==
  IF i > 0 /\ RLess(new_ema_3, new_ema_2) # RLess(last_ema_3, last_ema_2)
  THEN Some(IF RLess(new_ema_3, new_ema_2) THEN "DownTrend" ELSE "UpTrend")
  ELSE None

\* EmaCutLongType
EmaCutLongType(i, last_ema_2, last_ema_3, new_ema_2, new_ema_3) ==
  IF i > 0 /\ RLess(new_ema_3, new_ema_2) # RLess(last_ema_3, last_ema_2)
  THEN Some(IF RLess(new_ema_3, new_ema_2) THEN "UpTrend" ELSE "DownTrend")
  ELSE None

\* last_ema_cut_index after the step
LastEmaCutIndex(i, last_ema_cut_index, ema_cut_long_type) ==
  IF IsSome(ema_cut_long_type) THEN Some(i) ELSE last_ema_cut_index

\* last_ema_cut_index.map(|idx| i - idx)
CandlesSinceEmaCut(i, last_ema_cut_index) ==
  IF IsSome(last_ema_cut_index) THEN Some(i - Unwrap(last_ema_cut_index)) ELSE None

\* color
Color(c) ==
  IF c.close > c.open THEN "Green" ELSE IF c.close < c.open THEN "Red" ELSE "Equal"

BodyTop(c) == Max(c.open, c.close)
BodyBottom(c) == Min(c.open, c.close)

\* a mutant of Percent: a candle without range is all body
Percent_FullOnZero(part, full_candle_size) ==
  IF full_candle_size > 0 THEN Rat(part * 100, full_candle_size) ELSE RInt(100)

\* body_percent / u_wick_percent / l_wick_percent
Percent(part, full_candle_size) ==
  IF full_candle_size > 0 THEN Rat(part * 100, full_candle_size) ELSE RInt(0)

\* the position of the short MA inside the body
BodyPosition(new_ema_1, body_bottom, body_top) ==
  IF body_top - body_bottom > 0
  THEN IF RLeq(Rat(66, 100), RDiv(RSub(new_ema_1, RInt(body_bottom)),
                                  RInt(body_top - body_bottom)))
       THEN Some("B1")
       ELSE IF RLeq(Rat(33, 100), RDiv(RSub(new_ema_1, RInt(body_bottom)),
                                       RInt(body_top - body_bottom)))
            THEN Some("B2")
            ELSE Some("B3")
  ELSE Some("B2")

\* emaCutPosition
EmaCutPosition(new_ema_1, c) ==
  IF RLess(RInt(c.high), new_ema_1) THEN Some("1")
  ELSE IF RLeq(RInt(BodyTop(c)), new_ema_1) /\ RLeq(new_ema_1, RInt(c.high))
       THEN Some("2")
  ELSE IF RLeq(RInt(BodyBottom(c)), new_ema_1) /\ RLess(new_ema_1, RInt(BodyTop(c)))
       THEN BodyPosition(new_ema_1, BodyBottom(c), BodyTop(c))
  ELSE IF RLeq(RInt(c.low), new_ema_1) /\ RLess(new_ema_1, RInt(BodyBottom(c)))
       THEN Some("3")
  ELSE IF RLess(new_ema_1, RInt(c.low)) THEN Some("4")
  ELSE None

\* analysis_array.last_mut().next_color = Some(color)
PatchNextColor(analysis_array, color) ==
  IF analysis_array = <<>> THEN analysis_array
  ELSE [analysis_array EXCEPT ![Len(analysis_array)].next_color = Some(color)]

\* the counters of a moving average in the result of the candle
ConOf(i, last_ema, new_ema, flat_threshold, up_con, down_con) ==
  ConCounters(EmaDir(i, last_ema, new_ema, flat_threshold), up_con, down_con)

\* the fields of the result about the candle's shape and the MA crossings
ShapeFields(g, c, i, new_ema_1, cut, con_medium, con_long) ==
  [color |-> Color(c),
   next_color |-> None,
   body_percent |-> Percent(Abs(c.close - c.open), c.high - c.low),
   u_wick_percent |-> Percent(c.high - BodyTop(c), c.high - c.low),
   l_wick_percent |-> Percent(BodyBottom(c) - c.low, c.high - c.low),
   ema_cut_position |-> EmaCutPosition(new_ema_1, c),
   ema_cut_long_type |-> cut,
   candles_since_ema_cut |->
     CandlesSinceEmaCut(i, LastEmaCutIndex(i, g.last_ema_cut_index, cut)),
   up_con_medium_ema |-> con_medium.up, down_con_medium_ema |-> con_medium.down,
   up_con_long_ema |-> con_long.up, down_con_long_ema |-> con_long.down]

\* the AnalysisResult of the candle
AnalysisObj(g, c, i, new_ema_1, new_ema_2, new_ema_3, new_atr, rsi, adx, bb_window, ci_window, ci_atr_window) ==
  [index |-> i,
   candletime |-> c.time,
   open |-> c.open, high |-> c.high, low |-> c.low, close |-> c.close,
   ema_short_value |-> Some(new_ema_1),
   ema_short_direction |-> EmaDir(i, g.last_ema_1, new_ema_1, g.options.flat_threshold),
   ema_short_turn_type |-> TurnType(g, new_ema_1),
   ema_medium_value |-> Some(new_ema_2),
   ema_medium_direction |-> EmaDir(i, g.last_ema_2, new_ema_2, g.options.flat_threshold),
   ema_long_value |-> Some(new_ema_3),
   ema_long_direction |-> EmaDir(i, g.last_ema_3, new_ema_3, g.options.flat_threshold),
   choppy_indicator |-> ChoppyOf(ci_window, ci_atr_window, g.options.ci_period),
   adx_value |-> adx.value,
   rsi_value |-> rsi.value,
   bb_values |-> BBValuesOf(bb_window, g.options.bb_period),
   atr |-> Some(new_atr)]
  @@ ShapeFields(g, c, i, new_ema_1,
                 EmaCutLongType(i, g.last_ema_2, g.last_ema_3, new_ema_2, new_ema_3),
                 ConOf(i, g.last_ema_2, new_ema_2, g.options.flat_threshold,
                       g.up_con_medium_ema, g.down_con_medium_ema),
                 ConOf(i, g.last_ema_3, new_ema_3, g.options.flat_threshold,
                       g.up_con_long_ema, g.down_con_long_ema))

\* the pushes and the state update at the end of append_candle
Commit(g, c, analysis_obj, rsi, adx, bb_window, ci_window, ci_atr_window) ==
  [g EXCEPT
     !.candle_data = Append(@, c),
     !.analysis_array = Append(PatchNextColor(@, analysis_obj.color), analysis_obj),
     !.last_ema_1 = Unwrap(analysis_obj.ema_short_value),
     !.last_ema_2 = Unwrap(analysis_obj.ema_medium_value),
     !.last_ema_3 = Unwrap(analysis_obj.ema_long_value),
     !.last_atr = Unwrap(analysis_obj.atr),
     !.rsi_avg_gain = rsi.avg_gain, !.rsi_avg_loss = rsi.avg_loss,
     !.up_con_medium_ema = analysis_obj.up_con_medium_ema,
     !.down_con_medium_ema = analysis_obj.down_con_medium_ema,
     !.up_con_long_ema = analysis_obj.up_con_long_ema,
     !.down_con_long_ema = analysis_obj.down_con_long_ema,
     !.last_ema_cut_index =
       LastEmaCutIndex(analysis_obj.index, @, analysis_obj.ema_cut_long_type),
     !.bb_window = bb_window, !.ci_window = ci_window,
     !.ci_atr_window = ci_atr_window,
     !.tr_sum = adx.tr_sum, !.pdm_sum = adx.pdm_sum, !.mdm_sum = adx.mdm_sum,
     !.adx_val = adx.adx_val, !.dx_count = adx.dx_count,
     !.prev_analysis = g.last_analysis,
     !.last_analysis = Some(analysis_obj),
     !.last_candle = Some(c)]

Analyse(g, c, i, new_atr, rsi, adx, bb_window, ci_window, ci_atr_window) ==
  Commit(g, c,
         AnalysisObj(g, c, i,
                     NewEma(i, c.close, g.last_ema_1, g.ema_1_k),
                     NewEma(i, c.close, g.last_ema_2, g.ema_2_k),
                     NewEma(i, c.close, g.last_ema_3, g.ema_3_k),
                     new_atr, rsi, adx, bb_window, ci_window, ci_atr_window),
         rsi, adx, bb_window, ci_window, ci_atr_window)

WithAtr(g, c, i, tr, new_atr) ==
  Analyse(g, c, i, new_atr,
          Rsi(g, i, g.last_candle, c.close),
          Adx(g, i, g.last_candle, c, tr),
          PushCapped(g.bb_window, c.close, g.options.bb_period),
          PushCapped(g.ci_window, c, g.options.ci_period),
          PushCapped(g.ci_atr_window, new_atr, g.options.ci_period))

WithTrueRange(g, c, i, tr) ==
  WithAtr(g, c, i, tr, NewAtr(i, g.options.atr_period, g.last_atr, tr))

\* AnalysisGenerator::append_candle: the generator after the call; the
\* returned result is its last_analysis
append_candle(g, new_candle) ==
  WithTrueRange(g, new_candle, ResultIndex(g), TrueRange(g.last_candle, new_candle))

\* a mutant of TickCloses: a tick exactly on the minute boundary does not close
TickCloses_AfterBoundary(current, time) == time > current.time + 60

\* time >= current.time + 60
TickCloses(current, time) == time >= current.time + 60

\* the candle a tick opens
TickCandle(price, time) ==
  [time |-> (time \div 60) * 60, open |-> price, high |-> price, low |-> price,
   close |-> price]

\* the forming candle closed by a tick: [gen, ret, closes]
TickClosed(appended, price, time) ==
  [gen |-> [appended EXCEPT !.current_candle = Some(TickCandle(price, time))],
   ret |-> appended.last_analysis, closes |-> 1]

\* AnalysisGenerator::append_tick: [gen, ret, closes]
append_tick(g, price, time) ==
  IF IsSome(g.current_candle)
  THEN IF TickCloses(Unwrap(g.current_candle), time)
       THEN TickClosed(append_candle(g, Unwrap(g.current_candle)), price, time)
       ELSE [gen |-> [g EXCEPT !.current_candle =
                        Some([Unwrap(g.current_candle) EXCEPT
                                !.high = Max(@, price),
                                !.low = Min(@, price),
                                !.close = price])],
             ret |-> None, closes |-> 0]
  ELSE [gen |-> [g EXCEPT !.current_candle = Some(TickCandle(price, time))],
        ret |-> None, closes |-> 0]

NoCall == [op |-> "new", candle |-> None, price |-> 0, time |-> 0, ret |-> None]

\* the generator variables while another part of the program is observed
GenQuiet ==
  /\ gen = NewGenerator(GenOptionsOf(2, 2, 2))
  /\ gen_call = NoCall
  /\ append_candle_calls = 0

\* ------------------------------------------- the other tasks (at rest)
\* a generator before its first candle
NewRamp ==
  [len |-> 0, last_ema_2 |-> [lo |-> 0, hi |-> 0], ema_medium_direction |-> "Flat",
   up_con_medium_ema |-> 0, down_con_medium_ema |-> 0]

RampQuiet == ramp = NewRamp

\* the tasks that lock AppState.firestore
SinkTasks == {"session", "scanner", "http"}

\* "recv_task" is the browser socket's handler of STOP_AUTO_TRADE
SinkQuiet ==
  /\ sink_pc = [t \in SinkTasks \cup {"recv_task"} |->
                 IF t = "session" THEN "loop" ELSE "idle"]
  /\ firestore_lock = "free"
  /\ sink_cmds = << >>
  /\ sink_settled = 0

\* the session started by START_DERIV and the one started by START_AUTO_MULTI
LotSessionIds == {"single", "auto"}

\* no task: pc "none"; a task is "connecting" until it enters its loop
NoLotSession ==
  [pc |-> "none", lot_no |-> 0, lot_active |-> FALSE, trade_mode |-> "idle",
   wrote |-> FALSE]

LotQuiet ==
  /\ lot_files = {}
  /\ lot_sessions = [s \in LotSessionIds |-> NoLotSession]

SideQuiet == RampQuiet /\ SinkQuiet /\ LotQuiet

\* ------------------------------------------------------- the session loop
Ev(kind) ==
  [kind |-> kind, profit |-> 0, asset |-> NoSymbol, epoch |-> 0, appended |-> NoCandle]

\* BroadcastMessage::AutoTradeStatus
AutoTradeStatus(active) == [type |-> "auto_trade_status", active |-> active]

\* BroadcastMessage::LotStatus
LotStatusMsg(active, gp, wc) ==
  [type |-> "lot_status", lot_active |-> active, grand_profit |-> gp, win_count |-> wc]

\* config values as auto_multi_trade normalises them before the loop
ConfigTargetProfit(tp) == IF tp > 0 THEN tp ELSE DefaultTargetProfit
ConfigTargetWin(tw) == IF tw > 0 THEN tw ELSE DefaultTargetWin
ConfigInitialStake(st) == IF st > 0 THEN st ELSE DefaultInitialStake

SockIdle == [pc |-> "idle", old |-> 0]
Sockets == {"b1", "b2"}
TaskIds == 1..MaxTasks

\* the socket-side state while only the session loop is observed
SockQuiet ==
  /\ auto_trade = 0
  /\ tasks = [t \in TaskIds |-> "none"]
  /\ mailbox = [t \in TaskIds |-> <<>>]
  /\ sock = [b \in Sockets |-> SockIdle]

\* the trading state auto_multi_trade sets up before entering its loop
SessionStart(mm, tp, tw, st, gens) ==
  /\ running = TRUE
  /\ lot_active = TRUE
  /\ current_money_mode = mm
  /\ current_initial_stake = ConfigInitialStake(st)
  /\ target_profit = ConfigTargetProfit(tp)
  /\ target_win = ConfigTargetWin(tw)
  /\ balance = StartBalance
  /\ grand_profit = 0
  /\ win_count = 0
  /\ trade_count = 0
  /\ stake_index_per_asset = EmptyMap
  /\ pending_contracts = EmptyMap
  /\ trades_for_lot = 0
  /\ last_check_minute = NoMinute
  /\ initial_check_done = FALSE
  /\ current_candle = EmptyMap
  /\ generators = gens
  /\ last_candle = [s \in DOMAIN gens |->
                      IF gens[s] = NoAnalysis THEN NoCandle ELSE HistoryLast]
  /\ sub_ids = <<>>
  /\ sent = <<>>
  /\ handled = Ev("start")
  /\ broadcast = << AutoTradeStatus(TRUE) >>

Init ==
  /\ \E mm \in {"fix", "martingale"} :
       SessionStart(mm, 2, 2, 1,
                    [s \in asset_symbols |->
                       IF s = "R_10" THEN "1" ELSE IF s = "R_25" THEN "42" ELSE "7"])
  /\ SockQuiet
  /\ GenQuiet
  /\ SideQuiet

\* cmd == "STOP"
CmdStop ==
  /\ running
  /\ sent' = Forgets(sub_ids)
  /\ running' = FALSE
  /\ handled' = Ev("STOP")
  /\ broadcast' = << AutoTradeStatus(FALSE) >>
  /\ UNCHANGED << lot_active, current_money_mode, current_initial_stake, target_profit,
                  target_win, balance, grand_profit, win_count, trade_count,
                  stake_index_per_asset, pending_contracts, trades_for_lot,
                  last_check_minute, initial_check_done, current_candle, generators, last_candle,
                  sub_ids >>

\* command == "UPDATE_PARAMS"; Keep / NoMode stand for a field the JSON lacks
CmdUpdateParams(tp, tw, stake, mm) ==
  /\ running
  /\ target_profit' = IF tp # Keep THEN tp ELSE target_profit
  /\ target_win' = IF tw # Keep THEN tw ELSE target_win
  /\ current_initial_stake' = IF stake # Keep THEN stake ELSE current_initial_stake
  /\ current_money_mode' = IF mm # NoMode THEN mm ELSE current_money_mode
  /\ sent' = <<>>
  /\ handled' = Ev("cmd")
  /\ broadcast' = << LotStatusMsg(lot_active, grand_profit, win_count) >>
  /\ UNCHANGED << running, lot_active, balance, grand_profit, win_count, trade_count,
                  stake_index_per_asset, pending_contracts, trades_for_lot,
                  last_check_minute, initial_check_done, current_candle, generators, last_candle,
                  sub_ids >>

\* command == "UPDATE_MODE"
CmdUpdateMode(tm) ==
  /\ running
  /\ lot_active' = IF tm = "idle" THEN FALSE ELSE IF tm = "auto" THEN TRUE ELSE lot_active
  /\ sent' = <<>>
  /\ handled' = Ev("cmd")
  /\ broadcast' = << LotStatusMsg(lot_active', grand_profit, win_count) >>
  /\ UNCHANGED << running, current_money_mode, current_initial_stake, target_profit,
                  target_win, balance, grand_profit, win_count, trade_count,
                  stake_index_per_asset, pending_contracts, trades_for_lot,
                  last_check_minute, initial_check_done, current_candle, generators, last_candle,
                  sub_ids >>

\* a frame with "ohlc" for a non-empty symbol and open_time > 0; code is the
\* status_code of the result append_candle returns when the frame closes the
\* symbol's forming candle
FrameOhlc(symbol, epoch, open_time, code, sub) ==
  LET prev_open_time == MapGetOr(current_candle, symbol, NoCandle)
      closes == open_time # prev_open_time /\ prev_open_time > 0
                  /\ symbol \in DOMAIN generators
      gens == IF closes THEN [generators EXCEPT ![symbol] = code] ELSE generators
      runs == PassRuns(initial_check_done, epoch, last_check_minute, lot_active)
      buys == PassBuys(1, gens, current_money_mode, stake_index_per_asset,
                       current_initial_stake, balance)
  IN /\ running
     /\ sub_ids' = TrackSub(sub_ids, sub)
     /\ generators' = gens
     /\ last_candle' = IF closes THEN [last_candle EXCEPT ![symbol] = prev_open_time]
                        ELSE last_candle
     /\ current_candle' = MapInsert(current_candle, symbol, open_time)
     /\ initial_check_done' = TRUE
     /\ last_check_minute' = IF runs THEN epoch \div 60 ELSE last_check_minute
     /\ sent' = IF runs THEN buys ELSE <<>>
     /\ handled' = [kind |-> IF runs THEN "pass" ELSE "ohlc", profit |-> 0,
                     asset |-> symbol, epoch |-> epoch,
                     appended |-> IF closes THEN prev_open_time ELSE NoCandle]
     /\ broadcast' = IF runs THEN PassBroadcast(buys, gens, epoch) ELSE <<>>
     /\ UNCHANGED << running, lot_active, current_money_mode, current_initial_stake,
                     target_profit, target_win, balance, grand_profit, win_count,
                     trade_count, stake_index_per_asset, pending_contracts,
                     trades_for_lot >>

\* a mutant of CountTrade: the buy response is not counted
CountTrade_Not(count) == count

\* trade_count += 1
CountTrade(count) == count + 1

\* a frame with "buy" carrying a contract_id; symbol is echo_req.parameters.symbol
FrameBuy(cid, symbol, maxTrades) ==
  /\ running
  /\ trade_count < maxTrades
  /\ pending_contracts' = MapInsert(pending_contracts, cid, symbol)
  /\ trade_count' = CountTrade(trade_count)
  /\ sent' = << [type |-> "proposal_open_contract", contract_id |-> cid] >>
  /\ handled' = Ev("frame")
  /\ broadcast' = << [type |-> "trade_opened", contract_id |-> cid, asset |-> symbol] >>
  /\ UNCHANGED << running, lot_active, current_money_mode, current_initial_stake,
                  target_profit, target_win, balance, grand_profit, win_count,
                  stake_index_per_asset, trades_for_lot, last_check_minute,
                  initial_check_done, current_candle, generators, last_candle, sub_ids >>

\* a frame with "proposal_open_contract" and status "open": trade_update only
FrameContractOpen(cid, sub) ==
  /\ running
  /\ sub_ids' = TrackSub(sub_ids, sub)
  /\ sent' = <<>>
  /\ handled' = Ev("frame")
  /\ broadcast' = << [type |-> "trade_update", contract_id |-> cid] >>
  /\ UNCHANGED << running, lot_active, current_money_mode, current_initial_stake,
                  target_profit, target_win, balance, grand_profit, win_count,
                  trade_count, stake_index_per_asset, pending_contracts, trades_for_lot,
                  last_check_minute, initial_check_done, current_candle, generators, last_candle >>

\* a frame with "proposal_open_contract" and status sold, won or lost
Settle(cid, profit, sub, maxSettle) ==
  LET asset_for_contract == MapGetOr(pending_contracts, cid, NoSymbol)
      ids == TrackSub(sub_ids, sub)
      gp == grand_profit + profit
      wc == IF IsWin(profit) THEN win_count + 1 ELSE win_count
      stop_trading == StopTrading(current_money_mode, gp, target_profit, wc, target_win)
  IN /\ running
     /\ trades_for_lot < maxSettle
     /\ sub_ids' = ids
     /\ balance' = balance + profit
     /\ grand_profit' = gp
     /\ win_count' = wc
     /\ pending_contracts' = MapRemove(pending_contracts, cid)
     /\ stake_index_per_asset' =
          LadderAfter(stake_index_per_asset, asset_for_contract, profit, current_money_mode)
     /\ trades_for_lot' = trades_for_lot + 1
     /\ running' = ~stop_trading
     /\ sent' = IF stop_trading THEN Forgets(ids) ELSE <<>>
     /\ handled' = [kind |-> "settle", profit |-> profit, asset |-> asset_for_contract,
                     epoch |-> 0, appended |-> NoCandle]
     /\ broadcast' =
          << [type |-> "trade_result", contract_id |-> cid, profit |-> profit],
             LotStatusMsg(lot_active, gp, wc) >>
          \o (IF stop_trading THEN << AutoTradeStatus(FALSE) >> ELSE <<>>)
     /\ UNCHANGED << lot_active, current_money_mode, current_initial_stake, target_profit,
                     target_win, trade_count, last_check_minute, initial_check_done,
                     current_candle, generators, last_candle >>

\* read.next() yields a frame that is not a text frame (the else branch of
\* `if let Some(Ok(TungsteniteMessage::Text(..))) = msg`): the loop breaks
NonTextFrames == {"ping", "pong", "binary"}
FrameNotText(frame) ==
  /\ running
  /\ running' = FALSE
  /\ sent' = <<>>
  /\ handled' = Ev(frame)
  /\ broadcast' = <<>>
  /\ UNCHANGED << lot_active, current_money_mode, current_initial_stake, target_profit,
                  target_win, balance, grand_profit, win_count, trade_count,
                  stake_index_per_asset, pending_contracts, trades_for_lot,
                  last_check_minute, initial_check_done, current_candle, generators, last_candle,
                  sub_ids >>

\* read.next() yields None or an error (the same else branch): the loop breaks
UpstreamClosed ==
  /\ running
  /\ running' = FALSE
  /\ sent' = <<>>
  /\ handled' = Ev("closed")
  /\ broadcast' = <<>>
  /\ UNCHANGED << lot_active, current_money_mode, current_initial_stake, target_profit,
                  target_win, balance, grand_profit, win_count, trade_count,
                  stake_index_per_asset, pending_contracts, trades_for_lot,
                  last_check_minute, initial_check_done, current_candle, generators, last_candle,
                  sub_ids >>

\* the inputs Spec draws
ParamCmds ==
  { [tp |-> 1, tw |-> 1, stake |-> Keep, mm |-> "fix"],
    [tp |-> 1, tw |-> 1, stake |-> Keep, mm |-> "martingale"],
    [tp |-> 2, tw |-> 2, stake |-> Keep, mm |-> NoMode] }
SpecCids == {"c1"}
SpecCodes == {"7", "1"}
SpecEpochs == {60 * m + s : m \in 1..MaxMinute, s \in {0, 6}}
SpecOhlcSymbols == {"R_10"}

Next ==
  \/ CmdStop /\ UNCHANGED << sockVars, genVars, sideVars >>
  \/ (\E p \in ParamCmds : CmdUpdateParams(p.tp, p.tw, p.stake, p.mm)) /\ UNCHANGED << sockVars, genVars, sideVars >>
  \/ (\E tm \in {"idle", "auto"} : CmdUpdateMode(tm)) /\ UNCHANGED << sockVars, genVars, sideVars >>
  \/ (\E symbol \in SpecOhlcSymbols, epoch \in SpecEpochs, code \in SpecCodes :
        FrameOhlc(symbol, epoch, epoch - (epoch % 60), code, NoSub)) /\ UNCHANGED << sockVars, genVars, sideVars >>
  \/ (\E cid \in SpecCids, symbol \in Symbols :
        FrameBuy(cid, symbol, MaxTrades)) /\ UNCHANGED << sockVars, genVars, sideVars >>
  \/ (\E cid \in SpecCids : FrameContractOpen(cid, NoSub)) /\ UNCHANGED << sockVars, genVars, sideVars >>
  \/ (\E cid \in DOMAIN pending_contracts, profit \in Profits :
        Settle(cid, profit, NoSub, MaxSettle)) /\ UNCHANGED << sockVars, genVars, sideVars >>
  \/ UpstreamClosed /\ UNCHANGED << sockVars, genVars, sideVars >>

Spec == Init /\ [][Next]_vars

\* ------------------------------------------------ claims on the session loop
Buys(out) == {i \in 1..Len(out) : out[i].type = "buy"}

Idx(a) == MapGetOr(stake_index_per_asset, a, 0)

\* C1: in fix mode the loop has exited at the end of every settlement that
\* leaves grand_profit >= target_profit (and has not exited through one that
\* leaves it below); the exiting settlement dispatches no buy, and once the
\* loop has exited no handler can run, so no buy follows it.
C1_FixStopsAtTargetProfit ==
  (handled.kind = "settle" /\ current_money_mode = "fix")
    => /\ running <=> grand_profit < target_profit
       /\ ~running => (Buys(sent) = {} /\ ~ENABLED Next)

\* two wins of profit 1 with initial_stake 1 and target_profit 2: stopped at
\* the second settlement
C1_Witness ==
  /\ handled.kind = "settle" /\ current_money_mode = "fix"
  /\ current_initial_stake = 1 /\ target_profit = 2
  /\ grand_profit = 2 /\ trades_for_lot = 2 /\ ~running

\* C2: in martingale mode the loop has exited at the end of a settlement
\* exactly when win_count has reached target_win; with target_win unchanged
\* that is the settlement that raises win_count to target_win, at whatever
\* ladder positions the trades were placed; nothing is processed afterwards.
C2_MartingaleStopsAtTargetWin ==
  /\ []((handled.kind = "settle" /\ current_money_mode = "martingale")
         => /\ running <=> win_count < target_win
            /\ ~running => (Buys(sent) = {} /\ ~ENABLED Next))
  /\ [][ ( /\ handled'.kind = "settle" /\ current_money_mode = "martingale"
           /\ win_count < target_win /\ ~running' )
         => (win_count' = target_win /\ handled'.profit > 0) ]_vars

\* the second win arrives after a loss moved a ladder index
C2_Witness ==
  /\ handled.kind = "settle" /\ current_money_mode = "martingale"
  /\ target_win = 2 /\ win_count = 2 /\ trades_for_lot = 3 /\ ~running
  /\ \E a \in Symbols : Idx(a) = 1

\* C3 as claimed: once the current mode's stop condition holds, the next
\* settlement the loop processes ends it.
C3_StopsWithinOneSettlement ==
  [][ ( /\ StopTrading(current_money_mode, grand_profit, target_profit, win_count, target_win)
        /\ handled'.kind = "settle" )
      => ~running' ]_vars

\* C3 as amended: the loop has exited at the end of a settlement exactly when
\* the current mode's stop condition holds on the values that settlement
\* leaves; a condition made true by UPDATE_PARAMS ends the loop at the next
\* settlement only if it still holds after that settlement's profit is applied.
C3_StopsWhenConditionHoldsAtSettlement ==
  handled.kind = "settle"
    => (~running <=>
          \/ current_money_mode = "fix" /\ grand_profit >= target_profit
          \/ current_money_mode = "martingale" /\ win_count >= target_win)

\* the loop ended at a settlement without a win: the condition had been made
\* true by UPDATE_PARAMS before it
C3_Witness ==
  /\ handled.kind = "settle" /\ ~IsWin(handled.profit) /\ ~running
  /\ target_profit = 1 /\ target_win = 1 /\ trades_for_lot >= 2

\* C5: a settlement adds the frame's profit to balance and to grand_profit,
\* and adds one to win_count iff the profit is > 0.
C5_SettlementAccounting ==
  [][ handled'.kind = "settle"
      => /\ balance' = balance + handled'.profit
         /\ grand_profit' = grand_profit + handled'.profit
         /\ win_count' = IF handled'.profit > 0 THEN win_count + 1 ELSE win_count ]_vars

\* a settlement of profit 0 (no win) after a winning one
C5_Witness ==
  /\ handled.kind = "settle" /\ handled.profit = 0
  /\ win_count = 1 /\ grand_profit = 1 /\ balance = StartBalance + 1

AllAssets == Symbols \cup {NoSymbol}

\* C7 as claimed: in fix mode a settlement leaves every ladder index unchanged.
C7_FixNeverChangesLadder ==
  [][ (handled'.kind = "settle" /\ current_money_mode = "fix")
      => \A a \in AllAssets :
           MapGetOr(stake_index_per_asset', a, 0) = MapGetOr(stake_index_per_asset, a, 0) ]_vars

\* C7 as amended: in fix mode a settlement without a win leaves every ladder
\* index unchanged; a winning settlement sets the index of the contract's
\* asset to 0 and leaves every other index unchanged.
C7_FixOnlyResetsOnWin ==
  [][ (handled'.kind = "settle" /\ current_money_mode = "fix")
      => \A a \in AllAssets :
           MapGetOr(stake_index_per_asset', a, 0) =
             IF handled'.profit > 0 /\ a = handled'.asset
             THEN 0
             ELSE MapGetOr(stake_index_per_asset, a, 0) ]_vars

\* a losing settlement in fix mode with an index that martingale advanced
C7_Witness ==
  /\ handled.kind = "settle" /\ handled.profit <= 0 /\ current_money_mode = "fix"
  /\ Idx(handled.asset) = 1

Ladder == <<1, 2, 6, 18, 54, 162, 384, 800, 1600>>

ExpectedStake(a) ==
  IF current_money_mode = "martingale"
  THEN Ladder[(IF Idx(a) < 8 THEN Idx(a) ELSE 8) + 1]
  ELSE current_initial_stake

\* C8: every buy of a decision pass carries current_initial_stake in fix mode
\* and ladder[min(index(symbol), 8)] in martingale mode; a settlement leaves
\* the stake of every asset other than the contract's unchanged.
C8_StakeOfEveryBuy ==
  /\ [](\A i \in Buys(sent) : sent[i].stake = ExpectedStake(sent[i].symbol))
  /\ [][ handled'.kind = "settle"
         => \A a \in Symbols \ {handled'.asset} :
              ComputeStake(current_money_mode', stake_index_per_asset', a, current_initial_stake')
                = ComputeStake(current_money_mode, stake_index_per_asset, a, current_initial_stake) ]_vars

\* one pass buys R_10 at ladder position 1 and R_25 at position 0
C8_Witness ==
  /\ handled.kind = "pass" /\ current_money_mode = "martingale"
  /\ \E i, j \in Buys(sent) :
       /\ sent[i].symbol = "R_10" /\ sent[i].stake = 2
       /\ sent[j].symbol = "R_25" /\ sent[j].stake = 1

\* C9: no buy is dispatched while lot_active is false.
C9_NoBuyWhilePaused ==
  Buys(sent) # {} => lot_active

\* an OHLC frame in a new minute, with a PUT candidate, handled while paused
C9_Witness ==
  /\ handled.kind = "ohlc" /\ ~lot_active /\ running
  /\ initial_check_done /\ last_check_minute = NoMinute
  /\ generators["R_25"] = "42"

\* the rulebook as written out by hand: the codes of each list
CallCodesOf == [R_10 |-> {"7", "15"}, R_25 |-> {"7"}, R_50 |-> {"7"}, R_75 |-> {"7"}]
PutCodesOf == [R_10 |-> {"42"}, R_25 |-> {"42", "7"}, R_50 |-> {"42"}, R_75 |-> {"42"}]

Candidate(e) ==
  /\ e.is_active = "y"
  /\ e.asset_code \in asset_symbols
  /\ e.asset_code \in DOMAIN generators
  /\ generators[e.asset_code] \in CallCodesOf[e.asset_code] \cup PutCodesOf[e.asset_code]

\* C10: a decision pass buys a CALL/PUT candidate exactly when its stake is
\* <= balance; an unaffordable candidate is skipped, the other candidates are
\* still served and the loop keeps running.
C10_InsufficientBalanceSkips ==
  /\ \A i \in Buys(sent) : sent[i].stake <= balance
  /\ handled.kind = "pass"
       => /\ running
          /\ \A n \in 1..Len(signal_entries) :
               Candidate(signal_entries[n])
                 => ((\E i \in Buys(sent) : sent[i].symbol = signal_entries[n].asset_code)
                       <=> ExpectedStake(signal_entries[n].asset_code) <= balance)

\* R_10 is a CALL candidate at stake 2 with balance 1: skipped, R_25 is bought
C10_Witness ==
  /\ handled.kind = "pass" /\ running /\ balance = 1
  /\ generators["R_10"] = "7" /\ Idx("R_10") = 1 /\ current_money_mode = "martingale"
  /\ Len(sent) = 1 /\ sent[1].type = "buy" /\ sent[1].symbol = "R_25"

OhlcHandled == handled'.kind \in {"pass", "ohlc"}

C16_FedCandleTimesIncrease ==
  [][ handled'.appended # NoCandle
      => handled'.appended > last_candle[handled'.asset] ]_vars

\* the handler of the step is the one of a buy response
BuyHandled == broadcast # <<>> /\ broadcast[1].type = "trade_opened"

\* C28 as claimed: each settlement increments trade_count by exactly one.
C28_SettlementCountsTrade ==
  [][ handled'.kind = "settle" => trade_count' = trade_count + 1 ]_vars

\* C28 as amended: trade_count is incremented by exactly one by each buy
\* response that carries a contract id, and by nothing else; a settlement
\* leaves it unchanged, so trade_count is the number of contracts opened, not
\* the number settled.
C28_BuyResponseCountsTrade ==
  [][ /\ BuyHandled' => trade_count' = trade_count + 1
      /\ ~BuyHandled' => trade_count' = trade_count
      /\ handled'.kind = "settle" => ~BuyHandled' ]_vars

\* two contracts opened, one of them settled
C28_Witness ==
  /\ handled.kind = "settle"
  /\ trade_count = 2
  /\ trades_for_lot = 1


\* C32: every OHLC frame that is due for a check (the first processed frame,
\* or a frame at second 0..5 of a minute not yet checked) emits a
\* multi_analysis listing every selected active symbol that has an analysis,
\* also when the lot is paused and when no buy is sent.
C32_MultiAnalysisEveryMinute ==
  [][ ( /\ handled'.kind \in {"pass", "ohlc"}
        /\ ShouldCheck(initial_check_done, handled'.epoch, last_check_minute)
        /\ PassSignals(1, generators') # <<>> )
      => \E i \in 1..Len(broadcast') :
           /\ broadcast'[i].type = "multi_analysis"
           /\ broadcast'[i].assets = PassSignals(1, generators') ]_vars


\* --------------------------------------------------------------- MinuteSpec
\* The loop under the candle streams of two symbols: each stream delivers its
\* frames in the order of their epochs, and the frames of the two streams
\* interleave. A stream has frames at seconds 0 and 6 of a minute. The
\* browser changes the stake with UPDATE_PARAMS and ends the session with
\* STOP; the upstream also sends frames that are not text, and closes.
MinuteSymbols == {"R_10", "R_25"}
MinuteCodes == {"7", "1"}
MinuteEpochs == {60 * m + s : m \in 1..MaxStreamMinute, s \in {0, 6}}
MinuteStakes == {0, 600}

\* the history leaves R_25 with either status code
MinuteInit ==
  /\ \E code \in MinuteCodes :
       SessionStart("fix", 2, 2, 1, [s \in asset_symbols |-> IF s = "R_25" THEN code ELSE "1"])
  /\ SockQuiet
  /\ GenQuiet
  /\ SideQuiet

\* a frame of a stream: not older than the frame the loop handled before it;
\* it belongs to the forming candle of its symbol (at first the last candle
\* of the history) or to the candle of the minute after it
MinuteFrame(symbol, epoch, code) ==
  /\ epoch >= handled.epoch
  /\ (epoch - (epoch % 60)) - MapGetOr(current_candle, symbol, HistoryLast) \in {0, 60}
  /\ FrameOhlc(symbol, epoch, epoch - (epoch % 60), code, NoSub)

MinuteNext ==
  \/ (\E symbol \in MinuteSymbols, epoch \in MinuteEpochs, code \in MinuteCodes :
        MinuteFrame(symbol, epoch, code)) /\ UNCHANGED << sockVars, genVars, sideVars >>
  \/ (\E stake \in MinuteStakes :
        CmdUpdateParams(Keep, Keep, stake, NoMode)) /\ UNCHANGED << sockVars, genVars, sideVars >>
  \/ CmdStop /\ UNCHANGED << sockVars, genVars, sideVars >>
  \/ (\E frame \in NonTextFrames : FrameNotText(frame)) /\ UNCHANGED << sockVars, genVars, sideVars >>
  \/ UpstreamClosed /\ UNCHANGED << sockVars, genVars, sideVars >>

MinuteSpec == MinuteInit /\ [][MinuteNext]_vars

\* the entries a decision pass evaluates: active, selected, with an analysis
Evaluated(gens) ==
  {n \in 1..Len(signal_entries) : EntrySignal(signal_entries[n], gens) # <<>>}

\* C33: a decision pass at the start of minute m (any pass after the forced
\* first one) judges every symbol it evaluates on that symbol's candle of
\* minute m - 1: the last candle appended to the symbol's generator is the
\* one that opened at 60 * (m - 1), whichever symbol's frame runs the pass.
C33_PassJudgesPreviousMinute ==
  [][ (handled'.kind = "pass" /\ initial_check_done)
      => \A n \in Evaluated(generators') :
           last_candle'[signal_entries[n].asset_code]
             = 60 * ((handled'.epoch \div 60) - 1) ]_vars


\* the symbols the buys of a handler's output are for
BoughtIn(out) == {out[i].symbol : i \in Buys(out)}

\* C34: at most one buy per symbol and closed candle: when two decision
\* passes follow each other and no candle of a symbol was appended to its
\* generator by the second one (the symbol's latest AnalysisResult is the one
\* the first pass saw), they do not both dispatch a buy for that symbol.
C34_OneBuyPerClosedCandle ==
  [][ (handled.kind = "pass" /\ handled'.kind = "pass")
      => \A a \in BoughtIn(sent) \cap BoughtIn(sent') :
           handled'.asset = a /\ handled'.appended # NoCandle ]_vars


\* the stakes of the buys of a handler's output, added up
StakeSum(out) == IntSum([i \in 1..Len(out) |-> IF out[i].type = "buy" THEN out[i].stake ELSE 0])

\* C36: the stakes committed and not yet settled never exceed the balance;
\* in particular the stakes of the buys one decision pass dispatches (none of
\* them settled when the pass ends) add up to at most the balance.
C36_CommittedStakesWithinBalance ==
  handled.kind = "pass" => StakeSum(sent) <= balance

\* C38: every buy order the session dispatches has a stake > 0, whatever
\* UPDATE_PARAMS commands were received.
C38_StakePositive ==
  \A i \in Buys(sent) : sent[i].stake > 0


\* C39: the loop exits only on STOP, on the lot stop condition (at the end of
\* a settlement), or when the upstream closes or fails; a ping, pong or
\* binary frame from the upstream does not end the session.
C39_NonTextFrameKeepsSession ==
  [][ (running /\ ~running') => handled'.kind \in {"STOP", "settle", "closed"} ]_vars


\* ----------------------------------------------------------------- PassSpec
\* The decision pass over every combination of latest status codes: OHLC
\* frames and pause / resume commands only.
PassCodes == {"7", "15", "42", "1"}
PassEpochs == {60, 120}
PassOhlcSymbols == {"R_10", "R_75"}

PassInit ==
  /\ \E mm \in {"fix", "martingale"},
        D \in {asset_symbols, asset_symbols \ {"R_10"}} :
       \E gens \in [D -> PassCodes \cup {NoAnalysis}] : SessionStart(mm, 2, 2, 1, gens)
  /\ SockQuiet
  /\ GenQuiet
  /\ SideQuiet

PassNext ==
  \/ (\E symbol \in PassOhlcSymbols, epoch \in PassEpochs, code \in PassCodes :
        FrameOhlc(symbol, epoch, epoch - (epoch % 60), code, NoSub)) /\ UNCHANGED << sockVars, genVars, sideVars >>
  \/ (\E tm \in {"idle", "auto"} : CmdUpdateMode(tm)) /\ UNCHANGED << sockVars, genVars, sideVars >>

PassSpec == PassInit /\ [][PassNext]_vars

\* the decision the rulebook gives for asset a of entry e, "none" when the
\* entry takes no part in the pass
DecisionOf(e) ==
  LET a == e.asset_code
  IN IF e.is_active # "y" \/ a \notin asset_symbols THEN "none"
     ELSE IF a \notin DOMAIN generators THEN "none"
     ELSE IF generators[a] = NoAnalysis THEN "none"
     ELSE IF generators[a] \in CallCodesOf[a] THEN "CALL"
     ELSE IF generators[a] \in PutCodesOf[a] THEN "PUT"
     ELSE "IDLE"

BuysFor(a) == {i \in Buys(sent) : sent[i].symbol = a}

\* C11: in a decision pass a selected symbol with an active entry and an
\* analysis is CALL if its status code is on the entry's call list (split at
\* commas, whitespace stripped), else PUT if on the put list, else IDLE; the
\* pass sends one buy of that contract type for a CALL or PUT symbol (that
\* the balance covers) and no buy for any other symbol.
C11_ClassifyAndBuy ==
  handled.kind = "pass"
    => /\ \A i \in Buys(sent) :
            \E n \in 1..Len(signal_entries) : signal_entries[n].asset_code = sent[i].symbol
       /\ \A n \in 1..Len(signal_entries) :
            LET e == signal_entries[n]
                a == e.asset_code
            IN IF DecisionOf(e) \in {"CALL", "PUT"} /\ ExpectedStake(a) <= balance
               THEN /\ Cardinality(BuysFor(a)) = 1
                    /\ \A i \in BuysFor(a) : sent[i].contract_type = DecisionOf(e)
               ELSE BuysFor(a) = {}

\* status code 15 (after a blank in "7, 15") makes R_10 a CALL, 7 (on both
\* lists of R_25) makes R_25 a CALL, and the inactive R_50 with code 7 gets
\* no order
C11_Witness ==
  /\ handled.kind = "pass"
  /\ "R_10" \in DOMAIN generators /\ generators["R_10"] = "15"
  /\ generators["R_25"] = "7" /\ generators["R_50"] = "7"
  /\ Len(sent) = 2
  /\ sent[1].symbol = "R_10" /\ sent[1].contract_type = "CALL"
  /\ sent[2].symbol = "R_25" /\ sent[2].contract_type = "CALL"

\* ----------------------------------------------------------------- RuleSpec
\* The decision pass of a session whose rulebook is rule_entries, over every
\* combination of latest status codes, the empty code of a descriptor the
\* codebook lacks included.
RuleCodes == {"", "7", "42", "1"}
RuleEpochs == {60, 120}

RECURSIVE RuleBuys(_, _, _, _, _, _)
\* the buys of a decision pass, in the order of rule_entries
RuleBuys(i, gens, mode, idx, initial_stake, bal) ==
  IF i > Len(rule_entries) THEN <<>>
  ELSE EntryBuys(rule_entries[i], gens, mode, idx, initial_stake, bal)
       \o RuleBuys(i + 1, gens, mode, idx, initial_stake, bal)

RECURSIVE RuleSignals(_, _)
\* signal_results of a pass, in the order of rule_entries
RuleSignals(i, gens) ==
  IF i > Len(rule_entries) THEN <<>>
  ELSE EntrySignal(rule_entries[i], gens) \o RuleSignals(i + 1, gens)

\* what the pass broadcasts
RuleBroadcast(buys, gens, epoch) ==
  (IF buys # <<>> THEN << [type |-> "auto_trade_status", active |-> TRUE] >> ELSE <<>>)
  \o (IF RuleSignals(1, gens) # <<>>
      THEN << [type |-> "multi_analysis", timestamp |-> epoch,
               assets |-> RuleSignals(1, gens)] >>
      ELSE <<>>)

\* the handler of an OHLC frame (FrameOhlc) in that session
RuleFrameOhlc(symbol, epoch, open_time, code) ==
  LET prev_open_time == MapGetOr(current_candle, symbol, NoCandle)
      closes == open_time # prev_open_time /\ prev_open_time > 0
                  /\ symbol \in DOMAIN generators
      gens == IF closes THEN [generators EXCEPT ![symbol] = code] ELSE generators
      runs == PassRuns(initial_check_done, epoch, last_check_minute, lot_active)
      buys == RuleBuys(1, gens, current_money_mode, stake_index_per_asset,
                       current_initial_stake, balance)
  IN /\ running
     /\ generators' = gens
     /\ last_candle' = IF closes THEN [last_candle EXCEPT ![symbol] = prev_open_time]
                        ELSE last_candle
     /\ current_candle' = MapInsert(current_candle, symbol, open_time)
     /\ initial_check_done' = TRUE
     /\ last_check_minute' = IF runs THEN epoch \div 60 ELSE last_check_minute
     /\ sent' = IF runs THEN buys ELSE <<>>
     /\ handled' = [kind |-> IF runs THEN "pass" ELSE "ohlc", profit |-> 0,
                     asset |-> symbol, epoch |-> epoch,
                     appended |-> IF closes THEN prev_open_time ELSE NoCandle]
     /\ broadcast' = IF runs THEN RuleBroadcast(buys, gens, epoch) ELSE <<>>
     /\ UNCHANGED << running, lot_active, current_money_mode, current_initial_stake,
                     target_profit, target_win, balance, grand_profit, win_count,
                     trade_count, stake_index_per_asset, pending_contracts,
                     trades_for_lot, sub_ids >>

RuleInit ==
  /\ \E gens \in [asset_symbols -> RuleCodes] : SessionStart("fix", 2, 2, 1, gens)
  /\ SockQuiet
  /\ GenQuiet
  /\ SideQuiet

RuleNext ==
  (\E symbol \in Symbols, epoch \in RuleEpochs, code \in RuleCodes :
     RuleFrameOhlc(symbol, epoch, epoch, code)) /\ UNCHANGED << sockVars, genVars, sideVars >>

RuleSpec == RuleInit /\ [][RuleNext]_vars

\* C37: a symbol whose latest status_code is "" is classified IDLE and gets
\* no buy, whatever the lists of its rulebook entry look like: the pass sends
\* no buy for it and multi_analysis reports the decision idle for it.
C37_EmptyCodeIsIdle ==
  handled.kind = "pass"
    => /\ \A a \in BoughtIn(sent) : generators[a] # ""
       /\ \A i \in 1..Len(broadcast) :
            broadcast[i].type = "multi_analysis"
              => \A k \in 1..Len(broadcast[i].assets) :
                   broadcast[i].assets[k].status_code = ""
                     => broadcast[i].assets[k].decision = "idle"


\* ----------------------------------------------------------------- StopSpec
\* The session loop with subscription ids on the upstream frames: candle
\* streams and contract streams are recorded, then forgotten at the end.
StopSubs == {"s1", "s2", NoSub}
StopEpochs == {60, 120}
StopProfits == {-1, 1}

StopInit ==
  /\ SessionStart("fix", 2, 2, 1, [s \in asset_symbols |-> "7"])
  /\ SockQuiet
  /\ GenQuiet
  /\ SideQuiet

StopNext ==
  \/ CmdStop /\ UNCHANGED << sockVars, genVars, sideVars >>
  \/ (\E tm \in {"idle", "auto"} : CmdUpdateMode(tm)) /\ UNCHANGED << sockVars, genVars, sideVars >>
  \/ (\E epoch \in StopEpochs, sub \in StopSubs :
        FrameOhlc("R_10", epoch, epoch, "7", sub)) /\ UNCHANGED << sockVars, genVars, sideVars >>
  \/ (\E cid \in SpecCids : FrameBuy(cid, "R_10", MaxTrades)) /\ UNCHANGED << sockVars, genVars, sideVars >>
  \/ (\E cid \in SpecCids, sub \in StopSubs :
        FrameContractOpen(cid, sub)) /\ UNCHANGED << sockVars, genVars, sideVars >>
  \/ (\E cid \in DOMAIN pending_contracts, profit \in StopProfits, sub \in StopSubs :
        Settle(cid, profit, sub, MaxSettle)) /\ UNCHANGED << sockVars, genVars, sideVars >>
  \/ UpstreamClosed /\ UNCHANGED << sockVars, genVars, sideVars >>

StopSpec == StopInit /\ [][StopNext]_vars

ForgetsEverySub ==
  /\ Len(sent) = Len(sub_ids)
  /\ \A i \in 1..Len(sub_ids) : sent[i] = [type |-> "forget", id |-> sub_ids[i]]

\* C14: the handler of STOP sends one forget per recorded subscription id, in
\* their order, and nothing else, and leaves the loop; once the loop is left
\* no handler runs any more, so no buy is dispatched and later buy responses
\* and contract frames change neither the money state nor the lot log.
C14_StopForgetsAndExits ==
  /\ handled.kind = "STOP" => (~running /\ ForgetsEverySub)
  /\ ~running => ~ENABLED StopNext

\* STOP arrives with two recorded subscriptions and an order in flight
C14_Witness ==
  /\ handled.kind = "STOP" /\ Len(sub_ids) = 2 /\ Len(sent) = 2
  /\ pending_contracts # EmptyMap /\ trades_for_lot = 1

\* C15: at the settlement that finds the stop condition true the session has
\* set lot_active to false, sent one forget per recorded subscription id,
\* broadcast auto_trade_status with active = false last, and left the loop,
\* after which no handler runs.
C15_StopConditionShutsDown ==
  (handled.kind = "settle" /\ ~running)
    => /\ lot_active = FALSE
       /\ ForgetsEverySub
       /\ broadcast # <<>>
       /\ broadcast[Len(broadcast)] = [type |-> "auto_trade_status", active |-> FALSE]
       /\ ~ENABLED StopNext

\* --------------------------------------------------------------- LadderSpec
LadderProfits == {-1, 1}

LadderInit ==
  /\ SessionStart("martingale", 0, 0, 0, [s \in asset_symbols |-> "1"])
  /\ SockQuiet
  /\ GenQuiet
  /\ SideQuiet

LadderNext ==
  \/ (\E cid \in SpecCids, symbol \in Symbols :
        FrameBuy(cid, symbol, MaxLadderSettle)) /\ UNCHANGED << sockVars, genVars, sideVars >>
  \/ (\E cid \in SpecCids, profit \in LadderProfits :
        Settle(cid, profit, NoSub, MaxLadderSettle)) /\ UNCHANGED << sockVars, genVars, sideVars >>
  \/ (\E mm \in Modes : CmdUpdateParams(Keep, Keep, Keep, mm)) /\ UNCHANGED << sockVars, genVars, sideVars >>

LadderSpec == LadderInit /\ [][LadderNext]_vars

\* C6: every ladder index is at most 8 (ladder length - 1), and right after a
\* winning settlement the index of the asset recorded for the settled
\* contract is 0.
C6_LadderIndexBounded ==
  /\ \A a \in DOMAIN stake_index_per_asset : stake_index_per_asset[a] \in 0..8
  /\ (handled.kind = "settle" /\ handled.profit > 0) => Idx(handled.asset) = 0

\* a win on an asset whose index had reached the last position, while another
\* asset stays saturated after more than eight losses
C6_Witness ==
  /\ handled.kind = "settle" /\ handled.profit > 0 /\ handled.asset = "R_10"
  /\ Idx("R_10") = 0 /\ Idx("R_25") = 8 /\ trades_for_lot >= 10

MoneyIndex(idx, a) == MapGetOr(idx, a, 0)

\* C13: balance, grand_profit, win_count and the ladder indices change only
\* in the handler of a final-status frame whose contract id was recorded from
\* a buy response and is still pending (the handler removes it).
C13_OnlyRecordedSettlementsChangeMoney ==
  [][ ( \/ balance' # balance
        \/ grand_profit' # grand_profit
        \/ win_count' # win_count
        \/ \E a \in AllAssets :
             MoneyIndex(stake_index_per_asset', a) # MoneyIndex(stake_index_per_asset, a) )
      => (handled'.kind = "settle" /\ pending_contracts' # pending_contracts) ]_vars

\* C35: a contract is settled at most once. The loop has just settled a
\* contract recorded from a buy response (the only contract id of the model,
\* no longer pending); a further final-status frame for it changes neither
\* balance, grand_profit, win_count, any ladder index nor the lot log.
C35_SettledAtMostOnce ==
  [][ ( /\ handled.kind = "settle" /\ handled.asset # NoSymbol
        /\ pending_contracts = EmptyMap
        /\ handled'.kind = "settle" )
      => /\ balance' = balance
         /\ grand_profit' = grand_profit
         /\ win_count' = win_count
         /\ \A a \in AllAssets :
              MoneyIndex(stake_index_per_asset', a) = MoneyIndex(stake_index_per_asset, a)
         /\ trades_for_lot' = trades_for_lot ]_vars


\* ------------------------------------------------------------------ GenSpec
\* a caller appends a candle
GenCandleAppended(c, appended) ==
  /\ gen' = appended
  /\ gen_call' = [op |-> "append_candle", candle |-> Some(c), price |-> 0, time |-> 0,
                  ret |-> appended.last_analysis]
  /\ append_candle_calls' = append_candle_calls + 1

GenAppendCandle(c) ==
  /\ append_candle_calls < MaxGenCalls
  /\ GenCandleAppended(c, append_candle(gen, c))

GenTickFed(price, time, r) ==
  /\ append_candle_calls + r.closes <= MaxGenCalls
  /\ gen' = r.gen
  /\ gen_call' = [op |-> "append_tick", candle |-> None, price |-> price,
                  time |-> time, ret |-> r.ret]
  /\ append_candle_calls' = append_candle_calls + r.closes

\* a caller feeds a tick
GenAppendTick(price, time) == GenTickFed(price, time, append_tick(gen, price, time))

GenPeriods == {1, 2}
GenTimes == {60, 120}
GenShapes ==
  { [open |-> 1, high |-> 3, low |-> 1, close |-> 3],
    [open |-> 3, high |-> 4, low |-> 1, close |-> 1] }
GenCandles ==
  { [time |-> t, open |-> s.open, high |-> s.high, low |-> s.low, close |-> s.close] :
      t \in GenTimes, s \in GenShapes }
GenPrices == {1, 3}
GenTickTimes == {60, 90, 120}

GenInit ==
  /\ SessionStart("fix", 2, 2, 1, [s \in asset_symbols |-> "1"])
  /\ SockQuiet
  /\ \E ma \in GenPeriods, bb \in GenPeriods, ci \in GenPeriods :
       gen = NewGenerator(GenOptionsOf(ma, bb, ci))
  /\ gen_call = NoCall
  /\ append_candle_calls = 0
  /\ SideQuiet

GenNext ==
  \/ (\E c \in GenCandles : GenAppendCandle(c)) /\ UNCHANGED << sessionVars, sockVars, sideVars >>
  \/ (\E price \in GenPrices, time \in GenTickTimes :
        GenAppendTick(price, time)) /\ UNCHANGED << sessionVars, sockVars, sideVars >>

GenSpec == GenInit /\ [][GenNext]_vars

\* --------------------------------------------------------------- SeriesSpec
\* One generator fed closed candles only, long enough for its moving
\* averages to cross more than once.

\* the medium MA follows the close more closely than the long MA
SeriesOptions == { GenOptions(1, 1, 2, 2, 2, 2, 2, 2), GenOptions(1, 2, 3, 1, 1, 1, 2, 2) }

SeriesShapes ==
  { [open |-> 1, high |-> 3, low |-> 1, close |-> 3],
    [open |-> 3, high |-> 4, low |-> 1, close |-> 1],
    [open |-> 2, high |-> 2, low |-> 2, close |-> 2] }

\* the candle of the next minute with the given prices
SeriesCandle(s) ==
  [time |-> 60 * (append_candle_calls + 1), open |-> s.open, high |-> s.high,
   low |-> s.low, close |-> s.close]

SeriesAppendCandle(s) ==
  /\ append_candle_calls < MaxSeriesCalls
  /\ GenCandleAppended(SeriesCandle(s), append_candle(gen, SeriesCandle(s)))

SeriesInit ==
  /\ SessionStart("fix", 2, 2, 1, [s \in asset_symbols |-> "1"])
  /\ SockQuiet
  /\ \E options \in SeriesOptions : gen = NewGenerator(options)
  /\ gen_call = NoCall
  /\ append_candle_calls = 0
  /\ SideQuiet

SeriesNext ==
  (\E s \in SeriesShapes : SeriesAppendCandle(s)) /\ UNCHANGED << sessionVars, sockVars, sideVars >>

SeriesSpec == SeriesInit /\ [][SeriesNext]_vars


\* ------------------------------------------------ claims on the generator
CandleAppended ==
  /\ gen_call'.op = "append_candle"
  /\ append_candle_calls' = append_candle_calls + 1

\* C17: append_candle with a candle whose time is <= the time of the last
\* appended candle fails and leaves the series and the state of the
\* generator unchanged.
C17_OutOfOrderCandleRejected ==
  [][ ( /\ CandleAppended
        /\ IsSome(gen.last_candle)
        /\ Unwrap(gen_call'.candle).time <= Unwrap(gen.last_candle).time )
      => (gen' = gen /\ ~IsSome(gen_call'.ret)) ]_vars

\* C18: the result series is as long as the number of append_candle
\* executions (direct calls and closes triggered by ticks), and its i-th
\* result (counted from 0) has index i.
C18_SeriesLengthAndIndex ==
  /\ Len(gen.analysis_array) = append_candle_calls
  /\ Len(gen.candle_data) = append_candle_calls
  /\ \A k \in 1..Len(gen.analysis_array) : gen.analysis_array[k].index = k - 1

\* two executions, the first a direct call, the second triggered by a tick
C18_Witness ==
  /\ append_candle_calls = 2 /\ Len(gen.analysis_array) = 2
  /\ gen.candle_data[1].high = 4
  /\ gen_call.op = "append_tick" /\ IsSome(gen_call.ret)

\* C19: append_tick returns Some(result) exactly when a forming candle exists
\* and the tick's minute is later than the forming candle's; then exactly the
\* forming candle is appended, the result returned is the one stored for it,
\* and a new forming candle opens at time/60*60 with all four prices equal to
\* the tick's price; otherwise it returns None, appends nothing and only
\* creates (at time/60*60, the price four times) or updates (high, low,
\* close) the forming candle.
C19_TickClosesOnLaterMinute ==
  [][ gen_call'.op = "append_tick"
      => LET time == gen_call'.time
             price == gen_call'.price
             opened == [time |-> (time \div 60) * 60, open |-> price, high |-> price,
                        low |-> price, close |-> price]
             later == /\ IsSome(gen.current_candle)
                      /\ time \div 60 > Unwrap(gen.current_candle).time \div 60
         IN /\ IsSome(gen_call'.ret) <=> later
            /\ later =>
                 /\ gen'.candle_data = Append(gen.candle_data, Unwrap(gen.current_candle))
                 /\ Len(gen'.analysis_array) = Len(gen.analysis_array) + 1
                 /\ \A k \in 1..Len(gen.analysis_array) :
                      [gen'.analysis_array[k] EXCEPT !.next_color = None]
                        = [gen.analysis_array[k] EXCEPT !.next_color = None]
                 /\ Unwrap(gen_call'.ret) = gen'.analysis_array[Len(gen'.analysis_array)]
                 /\ Unwrap(gen_call'.ret).candletime = Unwrap(gen.current_candle).time
                 /\ gen'.current_candle = Some(opened)
            /\ ~later =>
                 /\ [gen' EXCEPT !.current_candle = gen.current_candle] = gen
                 /\ gen'.current_candle =
                      IF IsSome(gen.current_candle)
                      THEN LET cur == Unwrap(gen.current_candle)
                           IN Some([time |-> cur.time, open |-> cur.open,
                                    high |-> IF price > cur.high THEN price ELSE cur.high,
                                    low |-> IF price < cur.low THEN price ELSE cur.low,
                                    close |-> price])
                      ELSE Some(opened) ]_vars

\* a tick at second 0 of minute 2 closes the candle of minute 1, which two
\* ticks had formed
C19_Witness ==
  /\ gen_call.op = "append_tick" /\ gen_call.time = 120 /\ IsSome(gen_call.ret)
  /\ Unwrap(gen_call.ret).candletime = 60
  /\ Unwrap(gen_call.ret).low = 1 /\ Unwrap(gen_call.ret).high = 3
  /\ Unwrap(gen.current_candle).time = 120

FirstResult == gen.analysis_array[1]

FirstCandleBasics ==
  LET r == FirstResult
  IN /\ r.ema_short_value = Some([n |-> r.close, d |-> 1])
     /\ r.ema_medium_value = Some([n |-> r.close, d |-> 1])
     /\ r.ema_long_value = Some([n |-> r.close, d |-> 1])
     /\ r.ema_short_direction = "Flat"
     /\ r.ema_medium_direction = "Flat"
     /\ r.ema_long_direction = "Flat"
     /\ r.ema_short_turn_type = "-"
     /\ r.atr = Some([n |-> r.high - r.low, d |-> 1])
     /\ r.rsi_value = <<>>
     /\ r.adx_value = <<>>

RangelessResults ==
  { r \in { gen.analysis_array[k] : k \in 1..Len(gen.analysis_array) } : r.high = r.low }

ZeroPercents(r) ==
  /\ r.body_percent = RInt(0)
  /\ r.u_wick_percent = RInt(0)
  /\ r.l_wick_percent = RInt(0)

\* C21 as claimed: for a candle with high == low, body_percent,
\* u_wick_percent and l_wick_percent are all 0 and ema_cut_position is "B2",
\* whatever the short MA value.
C21_RangelessCandleIsB2 ==
  \A r \in RangelessResults : ZeroPercents(r) /\ r.ema_cut_position = Some("B2")

\* C21 as amended: for a candle with open == close == high == low the three
\* percents are 0, and ema_cut_position is "1" when the short MA is above the
\* price, "2" when it equals the price and "4" when it is below; it is never
\* "B2".
C21_RangelessCandleByShortMa ==
  \A r \in RangelessResults :
    (r.open = r.high /\ r.close = r.high)
      => /\ ZeroPercents(r)
         /\ r.ema_cut_position =
              IF RLess(RInt(r.high), Unwrap(r.ema_short_value)) THEN Some("1")
              ELSE IF Unwrap(r.ema_short_value) = RInt(r.high) THEN Some("2")
              ELSE Some("4")

\* a candle of range 3 closing at 3, then a candle formed by one tick at
\* price 1: the short MA of the second is above its high
C21_Witness ==
  /\ Len(gen.analysis_array) = 2
  /\ gen.analysis_array[1].close = 3 /\ gen.analysis_array[1].low = 1
  /\ gen.analysis_array[2].high = 1 /\ gen.analysis_array[2].low = 1
  /\ gen.analysis_array[2].ema_cut_position = Some("1")
  /\ gen.analysis_array[2].body_percent = RInt(0)


\* C22: whenever the result of the last appended candle has an rsi, it lies
\* in 0..100, and it equals 100 exactly when the smoothed average loss
\* (rsi_avg_loss of the state after the candle) is 0.
C22_RsiRangeAndHundredIffNoLoss ==
  (IsSome(gen.last_analysis) /\ IsSome(Unwrap(gen.last_analysis).rsi_value))
    => LET rsi == Unwrap(Unwrap(gen.last_analysis).rsi_value)
       IN /\ RLeq(RInt(0), rsi) /\ RLeq(rsi, RInt(100))
          /\ rsi = RInt(100) <=> gen.rsi_avg_loss = RInt(0)


\* C23: the result of the last appended candle has an adx exactly when at
\* least adx_period DX values have been produced so far (dx_count of the
\* state after the candle), and an adx that is present lies in 0..100.
C23_AdxPresenceAndRange ==
  IsSome(gen.last_analysis)
    => LET adx == Unwrap(gen.last_analysis).adx_value
       IN /\ IsSome(adx) <=> gen.dx_count >= gen.options.adx_period
          /\ IsSome(adx) => (RLeq(RInt(0), Unwrap(adx)) /\ RLeq(Unwrap(adx), RInt(100)))


\* the k-th stored result, counted from 0
ResultAt(k) == gen.analysis_array[k + 1]

\* the medium MA of the k-th result is above its long MA
MediumAbove(k) ==
  RLess(Unwrap(ResultAt(k).ema_long_value), Unwrap(ResultAt(k).ema_medium_value))

\* the steps at or before k at which the medium MA changed sides
FlipsUpTo(k) == { j \in 1..k : MediumAbove(j) # MediumAbove(j - 1) }

\* C24: ema_cut_long_type is present at step i exactly when (medium MA >
\* long MA) differs from its value at step i-1, and is "UpTrend" when the
\* comparison is now true ("DownTrend" otherwise); at such a step
\* candles_since_ema_cut is 0, at later steps it is the number of steps since
\* the most recent flip, and before any flip it is absent.
C24_CutExactlyOnFlip ==
  \A k \in 0..(Len(gen.analysis_array) - 1) :
    /\ IsSome(ResultAt(k).ema_cut_long_type) <=> k \in FlipsUpTo(k)
    /\ k \in FlipsUpTo(k) =>
         /\ ResultAt(k).ema_cut_long_type
              = Some(IF MediumAbove(k) THEN "UpTrend" ELSE "DownTrend")
         /\ ResultAt(k).candles_since_ema_cut = Some(0)
    /\ ResultAt(k).candles_since_ema_cut =
         IF FlipsUpTo(k) = {} THEN None
         ELSE Some(k - (CHOOSE j \in FlipsUpTo(k) : \A h \in FlipsUpTo(k) : h <= j))

\* the medium MA crosses above the long MA at step 1 and below it at step 2,
\* and the fourth candle is two steps after that
C24_Witness ==
  /\ Len(gen.analysis_array) = 4
  /\ ResultAt(1).ema_cut_long_type = Some("UpTrend")
  /\ ResultAt(2).ema_cut_long_type = Some("DownTrend")
  /\ ResultAt(3).ema_cut_long_type = None
  /\ ResultAt(3).candles_since_ema_cut = Some(1)


\* the counters follow the direction dir from the counters before the step
CountersFollow(dir, up_before, down_before, up_after, down_after) ==
  /\ dir = "Up" => (up_after = up_before + 1 /\ down_after = 0)
  /\ dir = "Down" => (down_after = down_before + 1 /\ up_after = 0)
  /\ dir = "Flat" => (up_after = up_before /\ down_after = down_before)
  /\ up_after = 0 \/ down_after = 0

\* a counter of the result before the k-th, 0 before the first
CounterBefore(k, field) == IF k = 0 THEN 0 ELSE ResultAt(k - 1)[field]

\* C30: for the medium and for the long MA, a step with direction Up
\* increments the up counter and resets the down counter to 0, a step with
\* direction Down does the opposite, a Flat step leaves both unchanged, and
\* at most one of the two counters is nonzero.
C30_ConsecutiveCounters ==
  \A k \in 0..(Len(gen.analysis_array) - 1) :
    /\ CountersFollow(ResultAt(k).ema_medium_direction,
                      CounterBefore(k, "up_con_medium_ema"),
                      CounterBefore(k, "down_con_medium_ema"),
                      ResultAt(k).up_con_medium_ema, ResultAt(k).down_con_medium_ema)
    /\ CountersFollow(ResultAt(k).ema_long_direction,
                      CounterBefore(k, "up_con_long_ema"),
                      CounterBefore(k, "down_con_long_ema"),
                      ResultAt(k).up_con_long_ema, ResultAt(k).down_con_long_ema)

\* the medium MA goes up, stays flat with its up counter kept at 1, and
\* then goes down
C30_Witness ==
  /\ Len(gen.analysis_array) = 4
  /\ ResultAt(1).ema_medium_direction = "Up" /\ ResultAt(1).up_con_medium_ema = 1
  /\ ResultAt(2).ema_medium_direction = "Flat" /\ ResultAt(2).up_con_medium_ema = 1
  /\ ResultAt(3).ema_medium_direction = "Down"
  /\ ResultAt(3).down_con_medium_ema = 1 /\ ResultAt(3).up_con_medium_ema = 0
  /\ gen.down_con_medium_ema = 1


\* C29: every stored result but the last has next_color equal to the color
\* of the result stored after it, the last stored result has no next_color,
\* and the retained last_analysis and prev_analysis carry the same
\* next_color as the last and the last-but-one stored result.
C29_NextColorOfSeriesAndRetained ==
  LET len == Len(gen.analysis_array)
  IN /\ \A k \in 1..(len - 1) :
          gen.analysis_array[k].next_color = Some(gen.analysis_array[k + 1].color)
     /\ len >= 1 =>
          /\ gen.analysis_array[len].next_color = None
          /\ IsSome(gen.last_analysis)
          /\ Unwrap(gen.last_analysis).next_color = gen.analysis_array[len].next_color
     /\ len >= 2 =>
          /\ IsSome(gen.prev_analysis)
          /\ Unwrap(gen.prev_analysis).next_color = gen.analysis_array[len - 1].next_color


\* the gain and the loss sample result k (k >= 2) contributes: the change of
\* its close from the close of result k - 1
SampleGain(arr, k) == Max(arr[k].close - arr[k - 1].close, 0)
SampleLoss(arr, k) == Max(arr[k - 1].close - arr[k].close, 0)

\* the RSI of the plain averages of the samples of results 2 .. period + 1
FirstRsi(arr, period) ==
  RsiOf(Rat(IntSum([j \in 1..period |-> SampleGain(arr, j + 1)]), period),
        Rat(IntSum([j \in 1..period |-> SampleLoss(arr, j + 1)]), period))

\* C31: the first result contributes no gain/loss sample, so k - 1 samples
\* exist once result k is produced; a result carries an RSI exactly when at
\* least rsi_period samples exist, and the first RSI is that of the sums of
\* exactly rsi_period samples divided by rsi_period.
C31_RsiAfterPeriodSamples ==
  \A k \in 1..Len(gen.analysis_array) :
    /\ IsSome(gen.analysis_array[k].rsi_value) <=> k - 1 >= gen.options.rsi_period
    /\ k - 1 = gen.options.rsi_period =>
         gen.analysis_array[k].rsi_value
           = Some(FirstRsi(gen.analysis_array, gen.options.rsi_period))


\* ----------------------------------------------------------------- RampSpec
\* A fresh generator with the default options fed candles whose closes are
\* 1, 2, 3, ...: its medium MA, the MA's direction and the two counters.
\* The MA is kept as an interval [lo, hi] of multiples of 1/FixScale that
\* contains the value the code computes.

FixScale == 100000

\* AnalysisOptions::default().ema2_period
DefaultEma2Period == 50

\* AnalysisOptions::default().flat_threshold (0.2), in units of 1/FixScale
FixFlatThreshold == FixScale \div 5

FixOf(x) == [lo |-> x * FixScale, hi |-> x * FixScale]

FixCeilDiv(a, b) == -((-a) \div b)

\* a mutant of Fix_calculate_ma: the mean of the price and the last value
Fix_calculate_ma_Mean(current_price, last_ema_state, period) ==
  [lo |-> (current_price * FixScale + last_ema_state.lo) \div 2,
   hi |-> FixCeilDiv(current_price * FixScale + last_ema_state.hi, 2)]

\* calculate_ma for "EMA" with ema_k = 2 / (period + 1):
\* current_price * ema_k + last_ema_state * (1 - ema_k)
Fix_calculate_ma(current_price, last_ema_state, period) ==
  [lo |-> (2 * current_price * FixScale + (period - 1) * last_ema_state.lo)
            \div (period + 1),
   hi |-> FixCeilDiv(2 * current_price * FixScale + (period - 1) * last_ema_state.hi,
                     period + 1)]

\* new_ema_2
FixNewEma(i, close, last_ema_state, period) ==
  IF i = 0 THEN FixOf(close) ELSE Fix_calculate_ma(close, last_ema_state, period)

\* get_ema_direction on intervals; "Unsure" when the intervals do not decide
Fix_get_ema_direction(prev, curr) ==
  IF prev.hi - curr.lo <= FixFlatThreshold /\ curr.hi - prev.lo <= FixFlatThreshold
  THEN "Flat"
  ELSE IF curr.lo - prev.hi > FixFlatThreshold THEN "Up"
  ELSE IF prev.lo - curr.hi > FixFlatThreshold THEN "Down"
  ELSE "Unsure"

\* ema_2_dir
FixEmaDir(i, prev, curr) == IF i > 0 THEN Fix_get_ema_direction(prev, curr) ELSE "Flat"

\* the state after the candle, given its medium MA and the counters
RampCommit(r, new_ema_2, dir, con_medium) ==
  [len |-> r.len + 1, last_ema_2 |-> new_ema_2, ema_medium_direction |-> dir,
   up_con_medium_ema |-> con_medium.up, down_con_medium_ema |-> con_medium.down]

RampWithEma(r, new_ema_2) ==
  RampCommit(r, new_ema_2, FixEmaDir(r.len, r.last_ema_2, new_ema_2),
             ConCounters(FixEmaDir(r.len, r.last_ema_2, new_ema_2),
                         r.up_con_medium_ema, r.down_con_medium_ema))

\* append_candle, as far as the medium MA is concerned
RampAppendCandle(r, close) ==
  RampWithEma(r, FixNewEma(r.len, close, r.last_ema_2, DefaultEma2Period))

\* the candle of index i closes at i + 1
RampAppend ==
  /\ ramp.len < MaxRamp
  /\ ramp' = RampAppendCandle(ramp, ramp.len + 1)

RampInit ==
  /\ SessionStart("fix", 2, 2, 1, [s \in asset_symbols |-> "1"])
  /\ SockQuiet
  /\ GenQuiet
  /\ RampQuiet /\ SinkQuiet /\ LotQuiet

RampNext ==
  RampAppend /\ UNCHANGED << sessionVars, sockVars, genVars, sinkVars, lotVars >>

RampSpec == RampInit /\ [][RampNext]_vars

\* C25 as claimed: with the default options and closes 1, 2, ..., 100,
\* ema_medium_direction is "Up" at every index >= 1, and at the last step
\* (index 99) up_con_medium_ema is 99 and down_con_medium_ema is 0.
C25_RampUpFromSecondCandle ==
  /\ ramp.len >= 2 => ramp.ema_medium_direction = "Up"
  /\ ramp.len = 100 => (ramp.up_con_medium_ema = 99 /\ ramp.down_con_medium_ema = 0)

\* C25 as amended: the medium MA's step first exceeds flat_threshold at
\* index 6, so ema_medium_direction is "Flat" at the indices 0..5 and "Up"
\* at every index >= 6; up_con_medium_ema is index - 5 from index 6 on (94
\* at index 99) and down_con_medium_ema stays 0.
C25_RampUpFromSeventhCandle ==
  ramp.len >= 1 =>
    /\ ramp.ema_medium_direction = IF ramp.len - 1 >= 6 THEN "Up" ELSE "Flat"
    /\ ramp.up_con_medium_ema = IF ramp.len - 1 >= 6 THEN ramp.len - 1 - 5 ELSE 0
    /\ ramp.down_con_medium_ema = 0

\* the hundredth candle (index 99, close 100)
C25_Witness ==
  /\ ramp.len = 100
  /\ ramp.ema_medium_direction = "Up"
  /\ ramp.up_con_medium_ema = 94


\* ------------------------------------------------------------------ LotSpec
\* The session started by START_DERIV (connect_to_deriv) and the one started
\* by START_AUTO_MULTI (auto_multi_trade), and the lot log files of the day's
\* folder, which both write.

LotModes == {"idle", "auto"}

\* get_next_lot_no: the largest N of the lot_<N>.json files, plus one
get_next_lot_no(files) ==
  IF files = {} THEN 1 ELSE (CHOOSE n \in files : \A m \in files : m <= n) + 1

\* the recv_task handler of START_DERIV / START_AUTO_MULTI: the stored session
\* of the slot, if any, is aborted and a new task is spawned
LotSpawn(s, trade_mode) ==
  /\ lot_sessions' =
       [lot_sessions EXCEPT ![s] = [pc |-> "connecting", lot_no |-> 0, lot_active |-> FALSE,
                                    trade_mode |-> trade_mode, wrote |-> FALSE]]
  /\ UNCHANGED lot_files

\* the session reaches its main loop: it takes the next lot number
LotEnterLoop(s) ==
  /\ lot_sessions[s].pc = "connecting"
  /\ get_next_lot_no(lot_files) <= MaxLotNo
  /\ lot_sessions' =
       [lot_sessions EXCEPT ![s].pc = "loop", ![s].lot_no = get_next_lot_no(lot_files),
                            ![s].lot_active = TRUE]
  /\ UNCHANGED lot_files

\* connect_to_deriv, command MODE:<new_mode>: leaving idle starts a new lot
LotModeCmd(new_mode) ==
  /\ lot_sessions["single"].pc = "loop"
  /\ IF new_mode # "idle" /\ lot_sessions["single"].trade_mode = "idle"
     THEN /\ get_next_lot_no(lot_files) <= MaxLotNo
          /\ lot_sessions' =
               [lot_sessions EXCEPT !["single"].lot_no = get_next_lot_no(lot_files),
                                    !["single"].lot_active = TRUE,
                                    !["single"].wrote = FALSE,
                                    !["single"].trade_mode = new_mode]
     ELSE lot_sessions' = [lot_sessions EXCEPT !["single"].trade_mode = new_mode]
  /\ UNCHANGED lot_files

\* connect_to_deriv, command STOP_STREAMS
LotStopStreams ==
  /\ lot_sessions["single"].pc = "loop"
  /\ lot_sessions' = [lot_sessions EXCEPT !["single"].trade_mode = "idle",
                                          !["single"].lot_active = FALSE]
  /\ UNCHANGED lot_files

\* connect_to_deriv, a settlement: save_lot_log while the lot is active; when
\* the stop condition holds the session goes idle and the lot ends. Contracts
\* are bought only while the mode is not idle; the settlement of a contract
\* still open after the session went idle is left out.
LotSettleSingle(stop_trading) ==
  /\ lot_sessions["single"].pc = "loop"
  /\ lot_sessions["single"].trade_mode # "idle"
  /\ lot_sessions["single"].lot_active
  /\ lot_files' = lot_files \cup {lot_sessions["single"].lot_no}
  /\ lot_sessions' =
       [lot_sessions EXCEPT !["single"].wrote = TRUE,
                            !["single"].trade_mode = IF stop_trading THEN "idle" ELSE @,
                            !["single"].lot_active = ~stop_trading]

\* auto_multi_trade, a settlement: save_lot_log; when the stop condition
\* holds the loop breaks and the task ends
LotSettleAuto(stop_trading) ==
  /\ lot_sessions["auto"].pc = "loop"
  /\ lot_files' = lot_files \cup {lot_sessions["auto"].lot_no}
  /\ lot_sessions' =
       [lot_sessions EXCEPT !["auto"].wrote = TRUE,
                            !["auto"].pc = IF stop_trading THEN "none" ELSE @]

\* the session ends: STOP / FORGET, the upstream closes, or the task is aborted
LotEnd(s) ==
  /\ lot_sessions[s].pc # "none"
  /\ lot_sessions' = [lot_sessions EXCEPT ![s].pc = "none"]
  /\ UNCHANGED lot_files

LotInit ==
  /\ SessionStart("fix", 2, 2, 1, [s \in asset_symbols |-> "1"])
  /\ SockQuiet
  /\ GenQuiet
  /\ RampQuiet /\ SinkQuiet /\ LotQuiet

LotOthers == << sessionVars, sockVars, genVars, rampVars, sinkVars >>

LotNext ==
  \/ (\E s \in LotSessionIds, tm \in LotModes : LotSpawn(s, tm)) /\ UNCHANGED LotOthers
  \/ (\E s \in LotSessionIds : LotEnterLoop(s)) /\ UNCHANGED LotOthers
  \/ (\E tm \in LotModes : LotModeCmd(tm)) /\ UNCHANGED LotOthers
  \/ LotStopStreams /\ UNCHANGED LotOthers
  \/ (\E stop_trading \in BOOLEAN : LotSettleSingle(stop_trading)) /\ UNCHANGED LotOthers
  \/ (\E stop_trading \in BOOLEAN : LotSettleAuto(stop_trading)) /\ UNCHANGED LotOthers
  \/ (\E s \in LotSessionIds : LotEnd(s)) /\ UNCHANGED LotOthers

LotSpec == LotInit /\ [][LotNext]_vars

\* C27: each lot log file has a single writer: no two sessions that are
\* alive at the same time hold the same lot number N and have both written
\* lot_<N>.json.
C27_SingleWriterPerLotFile ==
  \A s \in LotSessionIds, t \in LotSessionIds :
    ( /\ s # t
      /\ lot_sessions[s].pc = "loop" /\ lot_sessions[t].pc = "loop"
      /\ lot_sessions[s].wrote /\ lot_sessions[t].wrote )
      => lot_sessions[s].lot_no # lot_sessions[t].lot_no


\* ----------------------------------------------------------------- SinkSpec
\* The tasks that write to the document sink through AppState.firestore, a
\* tokio Mutex: the session (auto_multi_trade) at each settlement, the market
\* scanner at the end of a scan, and the HTTP handlers that save a trade or a
\* scan. The sink is configured (GlobalFirestore.manager is Some), so a write
\* awaits the answer of the remote service.

\* `firestore.lock().await` of task t: taken at once when the mutex is free
SinkLock(t) ==
  IF firestore_lock = "free"
  THEN /\ firestore_lock' = t
       /\ sink_pc' = [sink_pc EXCEPT ![t] = "write"]
  ELSE /\ sink_pc' = [sink_pc EXCEPT ![t] = "lock"]
       /\ UNCHANGED firestore_lock

\* the session handles a settlement frame: up to the write to the sink
SinkSettle ==
  /\ sink_pc["session"] = "loop"
  /\ sink_settled < MaxSinkSettle
  /\ SinkLock("session")
  /\ UNCHANGED << sink_cmds, sink_settled >>

\* a task waiting for the mutex gets it
SinkAcquire(t) ==
  /\ sink_pc[t] = "lock"
  /\ firestore_lock = "free"
  /\ firestore_lock' = t
  /\ sink_pc' = [sink_pc EXCEPT ![t] = "write"]
  /\ UNCHANGED << sink_cmds, sink_settled >>

\* the remote service answers the write of task t (Ok or Err): the guard is
\* dropped and the task goes on: the session to its loop, the others to rest
SinkWriteDone(t) ==
  /\ sink_pc[t] = "write"
  /\ firestore_lock' = "free"
  /\ sink_pc' = [sink_pc EXCEPT ![t] = IF t = "session" THEN "loop" ELSE "idle"]
  /\ sink_settled' = IF t = "session" THEN sink_settled + 1 ELSE sink_settled
  /\ UNCHANGED sink_cmds

\* the browser's STOP_AUTO_TRADE: the handler takes the stored session,
\* queues "STOP" on its cmd channel and sleeps 200 ms
SinkBrowserStop ==
  /\ sink_pc["recv_task"] = "idle"
  /\ sink_cmds' = Append(sink_cmds, "STOP")
  /\ sink_pc' = [sink_pc EXCEPT !["recv_task"] = "sleep"]
  /\ UNCHANGED << firestore_lock, sink_settled >>

\* the handler wakes up: old_handle.abort(). A session that has not ended is
\* cancelled where it waits, and a guard it holds is dropped.
SinkAbort ==
  /\ sink_pc["recv_task"] = "sleep"
  /\ sink_pc' = [sink_pc EXCEPT !["recv_task"] = "done",
                                !["session"] = IF @ = "exited" THEN @ ELSE "aborted"]
  /\ firestore_lock' = IF firestore_lock = "session" THEN "free" ELSE firestore_lock
  /\ UNCHANGED << sink_cmds, sink_settled >>

\* the session's select! takes the command: STOP ends the session
SinkSessionStop ==
  /\ sink_pc["session"] = "loop"
  /\ sink_cmds # << >>
  /\ sink_cmds' = Tail(sink_cmds)
  /\ sink_pc' = [sink_pc EXCEPT !["session"] = "exited"]
  /\ UNCHANGED << firestore_lock, sink_settled >>

\* run_scanner_loop wakes up and starts perform_scan
SinkScanStart ==
  /\ sink_pc["scanner"] = "idle"
  /\ sink_pc' = [sink_pc EXCEPT !["scanner"] = "scan"]
  /\ UNCHANGED << firestore_lock, sink_cmds, sink_settled >>

\* perform_scan has its results: it saves them when config.save_to_firestore
SinkScanSave(save_to_firestore) ==
  /\ sink_pc["scanner"] = "scan"
  /\ IF save_to_firestore
     THEN SinkLock("scanner")
     ELSE /\ sink_pc' = [sink_pc EXCEPT !["scanner"] = "idle"]
          /\ UNCHANGED firestore_lock
  /\ UNCHANGED << sink_cmds, sink_settled >>

\* save_trade_handler / save_scan_handler receive a request
SinkHttpSave ==
  /\ sink_pc["http"] = "idle"
  /\ SinkLock("http")
  /\ UNCHANGED << sink_cmds, sink_settled >>

SinkInit ==
  /\ SessionStart("fix", 2, 2, 1, [s \in asset_symbols |-> "1"])
  /\ SockQuiet
  /\ GenQuiet
  /\ RampQuiet /\ SinkQuiet /\ LotQuiet

SinkOthers == << sessionVars, sockVars, genVars, rampVars, lotVars >>

SinkNext ==
  \/ SinkSettle /\ UNCHANGED SinkOthers
  \/ (\E t \in SinkTasks : SinkAcquire(t)) /\ UNCHANGED SinkOthers
  \/ (\E t \in SinkTasks : SinkWriteDone(t)) /\ UNCHANGED SinkOthers
  \/ SinkBrowserStop /\ UNCHANGED SinkOthers
  \/ SinkAbort /\ UNCHANGED SinkOthers
  \/ SinkSessionStop /\ UNCHANGED SinkOthers
  \/ SinkScanStart /\ UNCHANGED SinkOthers
  \/ (\E save \in BOOLEAN : SinkScanSave(save)) /\ UNCHANGED SinkOthers
  \/ SinkHttpSave /\ UNCHANGED SinkOthers

\* The runtime runs every task that can take a step, and the mutex serves its
\* waiters in turn; nothing makes the remote service answer, a settlement
\* arrive, or a browser or HTTP client send a request.
SinkFairness ==
  /\ \A t \in SinkTasks : SF_vars(SinkAcquire(t) /\ UNCHANGED SinkOthers)
  /\ WF_vars(SinkSessionStop /\ UNCHANGED SinkOthers)
  /\ WF_vars(SinkAbort /\ UNCHANGED SinkOthers)
  /\ WF_vars(SinkScanStart /\ UNCHANGED SinkOthers)
  /\ WF_vars((\E save \in BOOLEAN : SinkScanSave(save)) /\ UNCHANGED SinkOthers)

SinkSpec == SinkInit /\ [][SinkNext]_vars /\ SinkFairness

\* C26: the settlement's write to the document sink does not block the
\* session loop for ever: whenever the session waits for the sink's mutex or
\* for the write's answer, it eventually is back in its loop (or has ended
\* or been stopped), also when the answer never comes or another task holds
\* the mutex.
C26_SessionLoopResumes ==
  (sink_pc["session"] \in {"lock", "write"})
    ~> (sink_pc["session"] \in {"loop", "exited", "aborted"})


\* C40: a session stopped by STOP_AUTO_TRADE is not terminated part-way
\* through a settlement: it is never cancelled while it waits for the
\* document sink (after the balance update, before the stop check), with the
\* STOP command still unprocessed on its channel.
C40_NotAbortedInsideSettlement ==
  [][ sink_pc'["session"] = "aborted" => sink_pc["session"] \notin {"lock", "write"} ]_vars


\* ----------------------------------------------------------------- SockSpec
\* One step per stretch of handle_socket between suspension points (.await):
\* the take() of the stored handle, the send of "STOP" to the old task, and
\* what follows the 200 ms sleep.

Live(t) == tasks[t] = "running"

FreeTasks == {t \in TaskIds : tasks[t] = "none"}

\* tokio::spawn(auto_multi_trade(..)) and *auto_guard = Some((handle, cmd_tx))
SpawnAndStore(t, tk) ==
  /\ tasks' = [tk EXCEPT ![t] = "running"]
  /\ auto_trade' = t

\* old_handle.abort()
Abort(tk, t) == IF tk[t] = "running" THEN [tk EXCEPT ![t] = "aborted"] ELSE tk

\* START_AUTO_MULTI arrives on socket b: auto_guard.take(); with no old
\* handle the new task is spawned and stored without suspending
SockStartTake(b) ==
  /\ sock[b].pc = "idle"
  /\ FreeTasks # {}
  /\ IF auto_trade = 0
     THEN /\ \E t \in FreeTasks : (\A u \in FreeTasks : t <= u) /\ SpawnAndStore(t, tasks)
          /\ UNCHANGED << sock, mailbox >>
     ELSE /\ sock' = [sock EXCEPT ![b] = [pc |-> "start_send", old |-> auto_trade]]
          /\ auto_trade' = 0
          /\ UNCHANGED << tasks, mailbox >>

\* old_tx.send("STOP").await completes: queued if the task still receives and
\* the channel has room, an error (ignored) if the receiver is gone
SockSend(b, from, to) ==
  /\ sock[b].pc = from
  /\ LET t == sock[b].old
     IN IF Live(t)
        THEN /\ Len(mailbox[t]) < MailboxCapacity
             /\ mailbox' = [mailbox EXCEPT ![t] = Append(@, "STOP")]
        ELSE UNCHANGED mailbox
  /\ sock' = [sock EXCEPT ![b].pc = to]
  /\ UNCHANGED << auto_trade, tasks >>

SockStartSend(b) == SockSend(b, "start_send", "start_sleep")

\* after the sleep: abort the old task, spawn the new one, store its handle
SockStartWake(b) ==
  /\ sock[b].pc = "start_sleep"
  /\ \E t \in FreeTasks :
       /\ \A u \in FreeTasks : t <= u
       /\ SpawnAndStore(t, Abort(tasks, sock[b].old))
  /\ sock' = [sock EXCEPT ![b] = SockIdle]
  /\ UNCHANGED mailbox

\* STOP_AUTO_TRADE arrives on socket b
SockStopTake(b) ==
  /\ sock[b].pc = "idle"
  /\ IF auto_trade = 0
     THEN UNCHANGED << sock, auto_trade >>
     ELSE /\ sock' = [sock EXCEPT ![b] = [pc |-> "stop_send", old |-> auto_trade]]
          /\ auto_trade' = 0
  /\ UNCHANGED << tasks, mailbox >>

SockStopSend(b) == SockSend(b, "stop_send", "stop_sleep")

SockStopWake(b) ==
  /\ sock[b].pc = "stop_sleep"
  /\ tasks' = Abort(tasks, sock[b].old)
  /\ sock' = [sock EXCEPT ![b] = SockIdle]
  /\ UNCHANGED << auto_trade, mailbox >>

\* the session task takes "STOP" from its channel and leaves its loop
TaskRecvStop(t) ==
  /\ Live(t)
  /\ mailbox[t] # <<>>
  /\ mailbox' = [mailbox EXCEPT ![t] = Tail(@)]
  /\ tasks' = [tasks EXCEPT ![t] = "ended"]
  /\ UNCHANGED << auto_trade, sock >>

\* the session task ends by itself (stop condition, upstream closed)
TaskEnds(t) ==
  /\ Live(t)
  /\ tasks' = [tasks EXCEPT ![t] = "ended"]
  /\ UNCHANGED << auto_trade, sock, mailbox >>

SockInit ==
  /\ SessionStart("fix", 2, 2, 1, [s \in asset_symbols |-> "1"])
  /\ SockQuiet
  /\ GenQuiet
  /\ SideQuiet

SockNext ==
  \/ (\E b \in Sockets : SockStartTake(b)) /\ UNCHANGED << sessionVars, genVars, sideVars >>
  \/ (\E b \in Sockets : SockStartSend(b)) /\ UNCHANGED << sessionVars, genVars, sideVars >>
  \/ (\E b \in Sockets : SockStartWake(b)) /\ UNCHANGED << sessionVars, genVars, sideVars >>
  \/ (\E b \in Sockets : SockStopTake(b)) /\ UNCHANGED << sessionVars, genVars, sideVars >>
  \/ (\E b \in Sockets : SockStopSend(b)) /\ UNCHANGED << sessionVars, genVars, sideVars >>
  \/ (\E b \in Sockets : SockStopWake(b)) /\ UNCHANGED << sessionVars, genVars, sideVars >>
  \/ (\E t \in TaskIds : TaskRecvStop(t)) /\ UNCHANGED << sessionVars, genVars, sideVars >>
  \/ (\E t \in TaskIds : TaskEnds(t)) /\ UNCHANGED << sessionVars, genVars, sideVars >>

SockSpec == SockInit /\ [][SockNext]_vars

\* the session tasks that are alive and not held by a handler that is in the
\* middle of stopping them
Undrained == {t \in TaskIds : Live(t) /\ \A b \in Sockets : sock[b].old # t}

\* C4: at most one auto-trade session is alive (apart from one a handler is
\* just stopping), and it is the one the stored handle refers to.
C4_AtMostOneLiveSession ==
  /\ Cardinality(Undrained) <= 1
  /\ \A t \in Undrained : auto_trade = t

====
